---------------------------- MODULE Spec2Model ----------------------------
(***************************************************************************)
(* Tool Adaptation Layer of mcp-repl: the schema mapper                    *)
(* (commands/tool_mapper.rs), the run-callback of an adapted tool command  *)
(* with its fresh-thread bridge (commands/mcp_tools.rs), the client's      *)
(* call_tool (mcp.rs) and the built-in commands that call the client       *)
(* (commands/call_tool.rs, list_tools.rs, list_resources.rs, tool.rs).     *)
(***************************************************************************)
EXTENDS Integers, Sequences, FiniteSets, TLC

(***************************************************************************)
(* Bounds of the model.                                                    *)
(***************************************************************************)
\* longest `properties` list of a tool schema
MaxProps == 3
\* longest content list a server returns from call_tool
MaxContents == 2
\* most nodes (scalars, arrays, objects) of a JSON value handed to the bridge
MaxNodes == 3

(***************************************************************************)
(* Shell values and JSON values.  A value is a record [kind, val].         *)
(***************************************************************************)
StrA == [kind |-> "String", val |-> "a"]
StrB == [kind |-> "String", val |-> "b"]
BoolTrue == [kind |-> "Bool", val |-> TRUE]
IntOne == [kind |-> "Int", val |-> 1]
\* an f64 is [class, halves]: finite with the value halves / 2, or inf, -inf, nan
FloatInf == [kind |-> "Float", val |-> [class |-> "inf", halves |-> 0]]
ClosureV == [kind |-> "Closure", val |-> "closure"]
NothingV == [kind |-> "Nothing", val |-> "nothing"]

\* a named argument slot of a call: not given / given without a value
Absent == [kind |-> "Absent", val |-> "-"]
NoValue == [kind |-> "NoValue", val |-> "-"]

JsonNull == [kind |-> "null", val |-> "null"]

(***************************************************************************)
(* Numbers.  i64 and u64 are modelled IntBits wide and the mantissa of an  *)
(* f64 MantBits wide: narrower than an integer, as in the program, so that *)
(* the largest u64 values are no f64 and round.                            *)
(***************************************************************************)
IntBits == 4
MantBits == 3

I64Max == 2^(IntBits - 1) - 1
I64Min == -(2^(IntBits - 1))
U64Max == 2^IntBits - 1

\* `n as f64` for 0 <= n <= U64Max: exact up to 2^MantBits, then the nearest
\* even number, a tie going to the even mantissa
RoundToF64(n) ==
    IF n <= 2^MantBits \/ n % 2 = 0 THEN n
    ELSE IF ((n - 1) \div 2) % 2 = 0 THEN n - 1 ELSE n + 1

F64(halves) == [class |-> "finite", halves |-> halves]

\* serde_json::Number is PosInt(u64), NegInt(i64) (always negative) or
\* Float(f64) (always finite): [repr, n], n in halves for a Float
\* serde_json::Number::from(i64)
NumberFromI64(i) ==
    IF i >= 0 THEN [repr |-> "PosInt", n |-> i] ELSE [repr |-> "NegInt", n |-> i]

\* a from_f64 that stores a whole number as an integer
NumberFromF64Integral(f) ==
    IF f.class # "finite" THEN <<>>
    ELSE IF f.halves % 2 = 0 /\ f.halves \div 2 \in I64Min..I64Max
         THEN <<NumberFromI64(f.halves \div 2)>>
         ELSE <<[repr |-> "Float", n |-> f.halves]>>

\* serde_json::Number::from_f64: None for inf and nan, else Some(Float)
NumberFromF64(f) ==
    IF f.class # "finite" THEN <<>> ELSE <<[repr |-> "Float", n |-> f.halves]>>

\* Number::as_i64
as_i64(num) ==
    CASE num.repr = "PosInt" -> IF num.n <= I64Max THEN <<num.n>> ELSE <<>>
      [] num.repr = "NegInt" -> <<num.n>>
      [] num.repr = "Float"  -> <<>>

\* an as_f64 that is None for an integer that is no f64
as_f64Exact(num) ==
    IF num.repr = "PosInt" /\ RoundToF64(num.n) # num.n THEN <<>>
    ELSE IF num.repr = "Float" THEN <<F64(num.n)>>
    ELSE <<F64(2 * num.n)>>

\* Number::as_f64
as_f64(num) ==
    CASE num.repr = "PosInt" -> <<F64(2 * RoundToF64(num.n))>>
      [] num.repr = "NegInt" -> <<F64(-2 * RoundToF64(-num.n))>>
      [] num.repr = "Float"  -> <<F64(num.n)>>

JsonNumber(num) == [kind |-> "number", val |-> num]

\* from_f64 is None
NonFinite(v) == NumberFromF64(v.val) = <<>>

ConvErr == [ok |-> FALSE, json |-> JsonNull]

(***************************************************************************)
(* serde_json::Map and the record of the shell: sequences of entries       *)
(* [k, v] in iteration order, keys unique.  Without the crate feature      *)
(* preserve_order the Map is a BTreeMap and iterates in key order, with it *)
(* an IndexMap and iterates in insertion order.                            *)
(***************************************************************************)
\* the keys of the objects, in their sort order
KeyOrder == <<"a", "b">>

KeyRank(k) == CHOOSE i \in 1..Len(KeyOrder) : KeyOrder[i] = k

HasKey(m, k) == \E i \in 1..Len(m) : m[i].k = k

\* Map::insert(k, v): the value of an entry that is there is replaced in
\* place; a new entry goes to the end (preserve_order) or to its place in
\* key order
MapInsertEntry(m, k, v, preserve_order) ==
    IF HasKey(m, k)
    THEN [i \in 1..Len(m) |-> IF m[i].k = k THEN [k |-> k, v |-> v] ELSE m[i]]
    ELSE IF preserve_order THEN Append(m, [k |-> k, v |-> v])
    ELSE LET before == SelectSeq(m, LAMBDA e : KeyRank(e.k) < KeyRank(k))
             after  == SelectSeq(m, LAMBDA e : KeyRank(e.k) > KeyRank(k))
         IN before \o <<[k |-> k, v |-> v]>> \o after

\* the two copies of the conversions, and the two builds of serde_json
Builds == [file : {"utils", "call_tool"}, preserve_order : BOOLEAN]

\* commands/call_tool.rs with the default features of serde_json
DefaultBuild == [file |-> "call_tool", preserve_order |-> FALSE]

\* convert_nu_value_to_json_value and json_list: the result is [ok, json].
\* The copies differ in Value::Range only.
RECURSIVE ConvertNuValue(_, _)

\* a json_list that puts null where an element failed
json_list_nulls(input, build) ==
    LET rs == [i \in 1..Len(input) |-> ConvertNuValue(input[i], build)]
    IN [ok |-> TRUE,
        json |-> [i \in 1..Len(rs) |-> IF rs[i].ok THEN rs[i].json ELSE JsonNull]]

\* json_list: `out.push(convert_nu_value_to_json_value(value, span)?)`, the
\* result is [ok, json] with json the Vec
json_list(input, build) ==
    LET rs == [i \in 1..Len(input) |-> ConvertNuValue(input[i], build)]
    IN IF \A i \in 1..Len(rs) : rs[i].ok
       THEN [ok |-> TRUE, json |-> [i \in 1..Len(rs) |-> rs[i].json]]
       ELSE [ok |-> FALSE, json |-> <<>>]

ConvertNuValue(v, build) ==
    CASE v.kind = "Bool"     -> [ok |-> TRUE, json |-> [kind |-> "bool", val |-> v.val]]
      [] v.kind = "Filesize" -> [ok |-> TRUE, json |-> JsonNumber(NumberFromI64(v.val))]
      [] v.kind = "Duration" -> [ok |-> TRUE, json |-> [kind |-> "string", val |-> v.val]]
      [] v.kind = "Date"     -> [ok |-> TRUE, json |-> [kind |-> "string", val |-> v.val]]
      [] v.kind = "Float"    -> IF NonFinite(v) THEN ConvErr
                                ELSE [ok |-> TRUE, json |-> JsonNumber(NumberFromF64(v.val)[1])]
      [] v.kind = "Int"      -> [ok |-> TRUE, json |-> JsonNumber(NumberFromI64(v.val))]
      [] v.kind = "Nothing"  -> [ok |-> TRUE, json |-> JsonNull]
      [] v.kind = "String"   -> [ok |-> TRUE, json |-> [kind |-> "string", val |-> v.val]]
      [] v.kind = "Error"    -> ConvErr
      [] v.kind = "Custom"   -> [ok |-> TRUE, json |-> JsonNull]
      [] v.kind = "Range"    -> IF build.file = "utils"
                                THEN [ok |-> TRUE, json |-> [kind |-> "string", val |-> v.val]]
                                ELSE [ok |-> TRUE, json |-> JsonNull]
      [] v.kind = "Closure"  -> [ok |-> TRUE, json |-> JsonNull]
      [] v.kind = "Glob"     -> [ok |-> TRUE, json |-> [kind |-> "string", val |-> v.val]]
      [] v.kind = "List"     ->
            LET r == json_list(v.val, build)
            IN IF r.ok THEN [ok |-> TRUE, json |-> [kind |-> "array", val |-> r.json]]
               ELSE ConvErr
      [] v.kind = "Record"   ->
            LET rs == [i \in 1..Len(v.val) |-> ConvertNuValue(v.val[i].v, build)]
                RECURSIVE Fill(_, _)
                Fill(m, i) ==
                    IF i > Len(rs) THEN m
                    ELSE Fill(MapInsertEntry(m, v.val[i].k, rs[i].json,
                                             build.preserve_order), i + 1)
            IN IF \A i \in 1..Len(rs) : rs[i].ok
               THEN [ok |-> TRUE, json |-> [kind |-> "object", val |-> Fill(<<>>, 1)]]
               ELSE ConvErr

convert_nu_value_to_json_value(v) == ConvertNuValue(v, DefaultBuild)

NuErr == [ok |-> FALSE, value |-> NothingV]

\* convert_json_value_to_nu_value, the same in both files: the result is
\* [ok, value]
RECURSIVE convert_json_value_to_nu_value(_)
convert_json_value_to_nu_value(v) ==
    CASE v.kind = "null"   -> [ok |-> TRUE, value |-> NothingV]
      [] v.kind = "bool"   -> [ok |-> TRUE, value |-> [kind |-> "Bool", val |-> v.val]]
      [] v.kind = "number" ->
            IF as_i64(v.val) # <<>>
            THEN [ok |-> TRUE, value |-> [kind |-> "Int", val |-> as_i64(v.val)[1]]]
            ELSE IF as_f64(v.val) # <<>>
            THEN [ok |-> TRUE, value |-> [kind |-> "Float", val |-> as_f64(v.val)[1]]]
            ELSE NuErr
      [] v.kind = "string" -> [ok |-> TRUE, value |-> [kind |-> "String", val |-> v.val]]
      [] v.kind = "array"  ->
            LET rs == [i \in 1..Len(v.val) |-> convert_json_value_to_nu_value(v.val[i])]
            IN IF \A i \in 1..Len(rs) : rs[i].ok
               THEN [ok |-> TRUE,
                     value |-> [kind |-> "List", val |-> [i \in 1..Len(rs) |-> rs[i].value]]]
               ELSE NuErr
      [] v.kind = "object" ->
            LET rs == [i \in 1..Len(v.val) |-> convert_json_value_to_nu_value(v.val[i].v)]
            IN IF \A i \in 1..Len(rs) : rs[i].ok
               THEN [ok |-> TRUE,
                     value |-> [kind |-> "Record",
                                val |-> [i \in 1..Len(rs) |->
                                           [k |-> v.val[i].k, v |-> rs[i].value]]]]
               ELSE NuErr

(***************************************************************************)
(* The JSON values handed to the bridge: every value of at most MaxNodes   *)
(* nodes over the scalars below.                                           *)
(***************************************************************************)
\* integers at the edges of i64 and of u64, floats with and without a
\* fraction, and the float an integer above u64 parses to
JsonScalars ==
    {JsonNull, [kind |-> "bool", val |-> TRUE], [kind |-> "string", val |-> "a"]}
    \cup {JsonNumber(NumberFromI64(i)) : i \in {1, I64Max, I64Min}}
    \cup {JsonNumber([repr |-> "PosInt", n |-> u]) : u \in {I64Max + 1, I64Max + 2, U64Max}}
    \cup {JsonNumber([repr |-> "Float", n |-> h]) : h \in {2, 3, 2 * (U64Max + 1)}}

\* the key sequences of a Map with n entries
KeySeqs(n, preserve_order) ==
    {ks \in [1..n -> {KeyOrder[i] : i \in 1..Len(KeyOrder)}] :
        /\ \A i, j \in 1..n : i # j => ks[i] # ks[j]
        /\ preserve_order \/ \A i, j \in 1..n : i < j => KeyRank(ks[i]) < KeyRank(ks[j])}

RECURSIVE JsonOfSize(_, _), JsonSeqs(_, _)
\* the JSON values of exactly n nodes
JsonOfSize(n, preserve_order) ==
    IF n = 0 THEN {}
    ELSE (IF n = 1 THEN JsonScalars ELSE {})
         \cup {[kind |-> "array", val |-> s] : s \in JsonSeqs(n - 1, preserve_order)}
         \cup UNION {{[kind |-> "object",
                       val |-> [i \in 1..Len(s) |-> [k |-> ks[i], v |-> s[i]]]] :
                         ks \in KeySeqs(Len(s), preserve_order)} :
                      s \in {x \in JsonSeqs(n - 1, preserve_order) : Len(x) <= Len(KeyOrder)}}

\* the sequences of JSON values of n nodes in all
JsonSeqs(n, preserve_order) ==
    IF n = 0 THEN {<<>>}
    ELSE UNION {{<<x>> \o rest : x \in JsonOfSize(k, preserve_order),
                                 rest \in JsonSeqs(n - k, preserve_order)} : k \in 1..n}

JsonValues(preserve_order) == UNION {JsonOfSize(n, preserve_order) : n \in 1..MaxNodes}

(***************************************************************************)
(* Tool schemas.  A tool is [props, required]: `props` is the sequence of  *)
(* property names in the iteration order of the schema's `properties` map, *)
(* `required` the names listed in its `required` array.  The schema of a   *)
(* property is fixed by its name.                                          *)
(***************************************************************************)
PropNames == {"src", "dst", "verbose", "limit"}

\* the "type" of a property's schema ("none": the schema has no type)
SchemaType(name) ==
    CASE name = "src"     -> "string"
      [] name = "dst"     -> "none"
      [] name = "verbose" -> "boolean"
      [] name = "limit"   -> "integer"

RECURSIVE Injective(_)
Injective(s) ==
    IF s = <<>> THEN TRUE
    ELSE /\ \A i \in 2..Len(s) : s[i] # s[1]
         /\ Injective(Tail(s))

Range(s) == {s[i] : i \in 1..Len(s)}

PropSeqs ==
    {s \in UNION {[1..n -> PropNames] : n \in 0..MaxProps} : Injective(s)}

\* schemas in canonical form: every required name is a property
Tools ==
    UNION {{[props |-> s, required |-> r] : r \in SUBSET Range(s)} : s \in PropSeqs}

is_boolean_parameter(name) == SchemaType(name) = "boolean"

is_parameter_required(t, name) == name \in t.required

\* the two filters over prop_vec
required_params(t, prop_vec) ==
    SelectSeq(prop_vec, LAMBDA n : is_parameter_required(t, n))

optional_params(t, prop_vec) ==
    SelectSeq(prop_vec, LAMBDA n : ~is_parameter_required(t, n))

\* the if/else-if chain that sets positional_count
positional_count_ge2(total, nreq, nopt) ==
    IF total = 1 THEN 1
    ELSE IF nreq >= 2 THEN 2
    ELSE IF nreq = 1 /\ nopt # 0 THEN 1
    ELSE 0

positional_count(total, nreq, nopt) ==
    IF total = 1 THEN 1
    ELSE IF nreq = 2 THEN 2
    ELSE IF nreq = 1 /\ nopt # 0 THEN 1
    ELSE 0

\* positional_count as map_tool_to_signature computes it (prop_vec unsorted)
SigPositionalCount(t) ==
    positional_count(Len(t.props),
                     Len(required_params(t, t.props)),
                     Len(optional_params(t, t.props)))


Min(a, b) == IF a < b THEN a ELSE b

\* `for i in 0..positional_count`: the positionals the signature declares.
\* With a single property the loop body only picks the name and declares
\* nothing; otherwise slot i declares required_params[i].
RECURSIVE SigPositionalLoop(_, _, _, _)
SigPositionalLoop(t, i, count, acc) ==
    IF i >= count THEN acc
    ELSE LET req == required_params(t, t.props) IN
         IF Len(t.props) = 1 THEN SigPositionalLoop(t, i + 1, count, acc)
         ELSE IF i < Len(req)
              THEN SigPositionalLoop(t, i + 1, count, Append(acc, req[i + 1]))
              ELSE SigPositionalLoop(t, i + 1, count, acc)

\* required_params.iter().take(positional_count)
TakeRequired(t, count) ==
    LET req == required_params(t, t.props) IN
    Range(SubSeq(req, 1, Min(count, Len(req))))

\* `for (param_name, param_schema) in prop_vec`: the flags the signature
\* declares, [name, switch] in declaration order.
RECURSIVE SigFlagLoop(_, _, _, _)
SigFlagLoop(t, i, count, acc) ==
    IF i > Len(t.props) THEN acc
    ELSE LET name == t.props[i] IN
         IF count > 0 /\ name \in TakeRequired(t, count)
         THEN SigFlagLoop(t, i + 1, count, acc)
         ELSE SigFlagLoop(t, i + 1, count,
                  Append(acc, [name |-> name,
                               switch |-> ~is_parameter_required(t, name)
                                          /\ is_boolean_parameter(name)]))

map_tool_to_signature(t) ==
    LET count == SigPositionalCount(t) IN
    [positional |-> SigPositionalLoop(t, 0, count, <<>>),
     flags |-> SigFlagLoop(t, 1, count, <<>>),
     positional_count |-> count]

EmptySignature == [positional |-> <<>>, flags |-> <<>>, positional_count |-> 0]

(***************************************************************************)
(* Calls.  A call is [pos, named]: the positional arguments in call order  *)
(* and, for every flag of the signature, Absent, NoValue (the flag is      *)
(* written without a value) or the value given to it.  The shell host      *)
(* parses a call against the command's signature before the run-callback   *)
(* is invoked: it takes exactly the declared (required) positionals, only  *)
(* declared flags, no value for a switch, and values of the declared       *)
(* shape.                                                                  *)
(***************************************************************************)
AllValues == {StrA, StrB, BoolTrue, IntOne, FloatInf, ClosureV}

\* the values the parser produces for a parameter of a schema type
ShapeValues(type) ==
    CASE type = "string"  -> {StrA, StrB}
      [] type = "boolean" -> {BoolTrue}
      [] type = "integer" -> {IntOne}
      [] type = "none"    -> {StrB, FloatInf, ClosureV}

FlagNames(sig) == {sig.flags[i].name : i \in 1..Len(sig.flags)}

IsSwitch(sig, name) ==
    \E i \in 1..Len(sig.flags) : sig.flags[i].name = name /\ sig.flags[i].switch

PosArgs(sig) ==
    {p \in [1..Len(sig.positional) -> AllValues] :
        \A i \in 1..Len(sig.positional) :
            p[i] \in ShapeValues(SchemaType(sig.positional[i]))}

NamedArgs(sig) ==
    {f \in [FlagNames(sig) -> AllValues \cup {Absent, NoValue}] :
        \A n \in FlagNames(sig) :
            IF IsSwitch(sig, n) THEN f[n] \in {Absent, NoValue}
            ELSE f[n] \in {Absent} \cup ShapeValues(SchemaType(n))}

AcceptedCalls(sig) ==
    {[pos |-> p, named |-> f] : p \in PosArgs(sig), f \in NamedArgs(sig)}

NoCall == [pos |-> <<>>, named |-> <<>>]

\* call.opt(i): the i-th positional (0-based), Absent for None
CallOpt(c, i) == IF i < Len(c.pos) THEN c.pos[i + 1] ELSE Absent

\* call.get_flag(name): the value given to the flag; None (Absent) when the
\* flag is not in the call or was written without a value
CallGetFlag(c, name) ==
    IF name \in DOMAIN c.named /\ c.named[name].kind \notin {"Absent", "NoValue"}
    THEN c.named[name]
    ELSE Absent

(***************************************************************************)
(* The binder, map_call_args_to_tool_params.                               *)
(***************************************************************************)
\* a required-first sort that is not stable: the required ones come out
\* in reverse order
SortRequiredFirstUnstable(t) ==
    LET req == required_params(t, t.props) IN
    [i \in 1..Len(req) |-> req[Len(req) + 1 - i]] \o optional_params(t, t.props)

\* prop_vec.sort_by(required first): the sort is stable, so required and
\* optional properties each keep their relative order
SortRequiredFirst(t) ==
    required_params(t, t.props) \o optional_params(t, t.props)

BinderPositionalCount(t) ==
    LET prop_vec == SortRequiredFirst(t) IN
    positional_count(Len(prop_vec),
                     Len(required_params(t, prop_vec)),
                     Len(optional_params(t, prop_vec)))

\* params.insert(name, json)
Insert(params, name, json) == (name :> json) @@ params

BindErr == [ok |-> FALSE, params |-> <<>>]

\* `for i in 0..positional_count`; acc is [ok, params]
RECURSIVE BindPositionalLoop(_, _, _, _, _)
BindPositionalLoop(t, c, i, count, acc) ==
    IF i >= count \/ ~acc.ok THEN acc
    ELSE
      LET prop_vec == SortRequiredFirst(t)
          req == required_params(t, prop_vec)
          picked == IF Len(prop_vec) = 1 THEN <<prop_vec[1]>>
                    ELSE IF i < Len(req) THEN <<req[i + 1]>>
                    ELSE <<>>
      IN
      IF picked = <<>> THEN BindPositionalLoop(t, c, i + 1, count, acc)
      ELSE
        LET name == picked[1]
            posv == CallOpt(c, i)
            flagv == CallGetFlag(c, name)
        IN
        IF posv # Absent
        THEN LET r == convert_nu_value_to_json_value(posv) IN
             IF r.ok
             THEN BindPositionalLoop(t, c, i + 1, count,
                      [acc EXCEPT !.params = Insert(acc.params, name, r.json)])
             ELSE BindErr
        ELSE IF flagv # Absent
        THEN LET r == convert_nu_value_to_json_value(flagv) IN
             IF r.ok
             THEN BindPositionalLoop(t, c, i + 1, count,
                      [acc EXCEPT !.params = Insert(acc.params, name, r.json)])
             ELSE BindErr
        ELSE BindPositionalLoop(t, c, i + 1, count, acc)

\* `for (param_name, _) in &prop_vec`: the remaining properties as flags
RECURSIVE BindFlagLoop(_, _, _, _)
BindFlagLoop(t, c, i, acc) ==
    LET prop_vec == SortRequiredFirst(t) IN
    IF i > Len(prop_vec) \/ ~acc.ok THEN acc
    ELSE
      LET name == prop_vec[i]
          flagv == CallGetFlag(c, name)
      IN
      IF name \in DOMAIN acc.params THEN BindFlagLoop(t, c, i + 1, acc)
      ELSE IF flagv # Absent
      THEN LET r == convert_nu_value_to_json_value(flagv) IN
           IF r.ok
           THEN BindFlagLoop(t, c, i + 1,
                    [acc EXCEPT !.params = Insert(acc.params, name, r.json)])
           ELSE BindErr
      ELSE BindFlagLoop(t, c, i + 1, acc)

\* the result is [ok, params]; positional_count is kept beside it
map_call_args_to_tool_params(t, c) ==
    LET count == BinderPositionalCount(t)
        r == BindFlagLoop(t, c, 1,
                 BindPositionalLoop(t, c, 0, count, [ok |-> TRUE, params |-> <<>>]))
    IN [ok |-> r.ok, params |-> r.params, positional_count |-> count]

\* parameter n is supplied by call c: as one of the positionals the
\* signature declares, or as a flag that is written in the call
Supplied(sig, c, n) ==
    \/ \E i \in 1..Len(sig.positional) : sig.positional[i] = n /\ i <= Len(c.pos)
    \/ n \in DOMAIN c.named /\ c.named[n] # Absent

\* R: the schema properties whose name is in `required`
RequiredProps(t) == {n \in Range(t.props) : n \in t.required}

Unsupplied(t, sig, c) == {n \in RequiredProps(t) : ~Supplied(sig, c, n)}

(***************************************************************************)
(* Content items of a call_tool response and their reduction to a          *)
(* pipeline value (the Ok arm of the run-callback).                        *)
(***************************************************************************)
TextItem == [kind |-> "Text", text |-> "a", bytes |-> 0, mime |-> ""]
ImageItem == [kind |-> "Image", text |-> "", bytes |-> 3, mime |-> "image/png"]
ResourceTextItem == [kind |-> "ResourceText", text |-> "b", bytes |-> 0, mime |-> ""]
ResourceBlobItem == [kind |-> "ResourceBlob", text |-> "", bytes |-> 2, mime |-> ""]

ContentItems == {TextItem, ImageItem, ResourceTextItem, ResourceBlobItem}

ContentLists == UNION {[1..n -> ContentItems] : n \in 0..MaxContents}

\* the shell value pushed for one content item
ItemValue(item) ==
    CASE item.kind = "Text" -> [kind |-> "String", val |-> item.text]
      [] item.kind = "Image" ->
           [kind |-> "String",
            val |-> "[Image: " \o ToString(item.bytes) \o " bytes, type: "
                    \o item.mime \o "]"]
      [] item.kind = "ResourceText" -> [kind |-> "String", val |-> item.text]
      [] item.kind = "ResourceBlob" ->
           [kind |-> "String", val |-> "[Resource: Non-text resource]"]

\* `for content in contents { ... values.push(..) }`
ContentValues(contents) == [i \in 1..Len(contents) |-> ItemValue(contents[i])]

\* a reduction that wraps a single item in a one-element list
ReduceContentsAlwaysList(contents) ==
    LET values == ContentValues(contents) IN
    IF Len(values) = 0 THEN NothingV
    ELSE [kind |-> "List", val |-> values]

\* "Return appropriate data based on number of values"
ReduceContents(contents) ==
    LET values == ContentValues(contents) IN
    IF Len(values) = 0 THEN NothingV
    ELSE IF Len(values) = 1 THEN values[1]
    ELSE [kind |-> "List", val |-> values]

(***************************************************************************)
(* Results that travel from the worker thread to the caller.               *)
(***************************************************************************)
OkResult(contents) == [ok |-> TRUE, contents |-> contents, err |-> ""]
ErrResult(msg) == [ok |-> FALSE, contents |-> <<>>, err |-> msg]

\* what the server can answer to a tools/call request
ServerResults == {OkResult(c) : c \in ContentLists} \cup {ErrResult("Failed to call tool")}

NoResult == ErrResult("none")

IdleWire == [kind |-> "idle", args |-> <<>>, result |-> NoResult]

NoOutcome == [kind |-> "none", value |-> NothingV, error |-> ""]
ValueOutcome(v) == [kind |-> "value", value |-> v, error |-> ""]
ErrorOutcome(e) == [kind |-> "error", value |-> NothingV, error |-> e]

\* `match result` that takes an error result for an empty content list
ProcessResultIgnoreErr(result) == ValueOutcome(ReduceContents(result.contents))

\* `match result`: Ok(contents) is reduced, Err(err) is reported
ProcessResult(result) ==
    IF result.ok THEN ValueOutcome(ReduceContents(result.contents))
    ELSE ErrorOutcome("Tool execution failed")

\* a startup runtime with a single thread: spawned tasks run only while the
\* thread inside block_on yields to the scheduler
RuntimeFlavorCurrentThread == "current_thread"

\* main: tokio::runtime::Builder::new_multi_thread()
RuntimeFlavor == "multi_thread"

\* main: runtime.block_on(repl.run()); run() evaluates the REPL without
\* awaiting, so the REPL thread stays inside the startup runtime and never
\* yields to it while commands run
ReplInsideRuntime == TRUE

\* the connection's I/O task was spawned on the startup runtime by connect;
\* it is polled by the runtime's worker threads, or, on a single-threaded
\* runtime, only by the thread inside block_on when that thread yields
IoTaskRunnable == RuntimeFlavor = "multi_thread" \/ ~ReplInsideRuntime

(***************************************************************************)
(* State.                                                                  *)
(***************************************************************************)
VARIABLES
    tool,           \* the tool descriptor cached by the client at connect time
    signature,      \* the signature registered for the adapted command
    pc,             \* position of the REPL thread
    call,           \* the call being bound by the run-callback
    bind,           \* result of map_call_args_to_tool_params: [ok, params]
    args,           \* args_json moved into the worker thread: <<>> or <<params>>
    worker,         \* position of the worker thread of the current invocation
    wres,           \* result of rt.block_on in the worker
    chan,           \* the std::sync::mpsc channel: messages sent and not received
    toService,      \* request handed by the call_tool future to the I/O task
    wire,           \* the connection: idle, a request out, or a response in
    requests,       \* tools/call requests written to the server, this invocation
    outcome,        \* what the run-callback returned
    steps,          \* the steps the current invocation has run, in order
    fail,           \* where the current invocation failed first
    unsupplied,     \* required properties the current call left unsupplied
    blockOnCaller,  \* commands that called block_on on the REPL thread
    callName,       \* the tool name handed to McpClient::call_tool
    clientTools,    \* McpClient.tools: the tool names cached at connect time
    clients,        \* McpClientManager.clients: namespace -> client
    commands,       \* the shell host's command table: command name -> declaration
    opResult,       \* the last manager operation and what it returned
    regOrder,       \* the namespaces in the registry, in order of registration
    firstClient,    \* namespace -> the client of its first registration
    clientStore,    \* MCP_CLIENT_STORE of each thread: <<>> or <<client>>
    runtimeStore,   \* RUNTIME_STORE of each thread: <<>> or <<runtime>>
    storeOp,        \* the last store operation: [op, thread, val]
    lastSet,        \* the client of the last completed set_mcp_client: <<>> or <<client>>
    mainPc,         \* position of main()
    cliArgs,        \* CliArgs and the environment: [connection, verbose, rust_log]
    replClient,     \* repl_client of main(): <<>> or <<ReplClient>>
    connectErr,     \* the error McpClient::connect returned to main(), "" if none
    stderr,         \* what the process wrote to its standard error, in order
    connectPc,      \* position of McpClient::connect
    serverCaps,     \* server_info.capabilities: [tools, resources], each announced or not
    loaded,         \* the locals tools / resources / templates of connect
    listed,         \* per listing: "pending", "skipped", "ok" or "err"
    served,         \* per listing: the items the server answered with
    connectResult,  \* what connect returned: "none", "ok" or "err"
    bridgePc,       \* position of the value bridge
    build,          \* the copy of the conversions in use and the build of serde_json
    jsonIn,         \* the JSON value handed to the bridge
    shellOut,       \* convert_json_value_to_nu_value(jsonIn)
    jsonBack,       \* convert_nu_value_to_json_value(shellOut)
    shellAgain,     \* convert_json_value_to_nu_value(jsonBack)
    cmdRegistry,    \* the names in the dynamic command registry
    listOut,        \* the last list_tool_commands: [done, rows, tools]
    dynPc,          \* position of execute_dynamic_command on the REPL thread
    dynCmd,         \* the name execute_dynamic_command resolved, "" if none
    lockHeld,       \* the mutex of the command registry is locked by the REPL thread
    dynResult       \* what execute_dynamic_command returned: "none", "ok" or "not_found"

\* the state of the adapted tool command and of its client
toolVars == <<tool, signature, pc, call, bind, args, worker, wres, chan, toService,
              wire, requests, outcome, steps, fail, unsupplied, blockOnCaller,
              callName, clientTools>>

\* the state of the manager and of the command table
registryVars == <<clients, commands, opResult, regOrder, firstClient>>

\* the thread-local stores of engine.rs
storeVars == <<clientStore, runtimeStore, storeOp, lastSet>>

\* the state of main() at startup
startupVars == <<mainPc, cliArgs, replClient, connectErr, stderr>>

\* the state of McpClient::connect
connectVars == <<connectPc, serverCaps, loaded, listed, served, connectResult>>

\* the state of the value bridge
bridgeVars == <<bridgePc, build, jsonIn, shellOut, jsonBack, shellAgain>>

\* the state of the components beside the tool layer and the manager
\* the state of the dynamic command registry and of its dispatcher
dynVars == <<cmdRegistry, listOut, dynPc, dynCmd, lockHeld, dynResult>>

auxVars == <<storeVars, startupVars, connectVars, bridgeVars, dynVars>>

\* the state of the components beside the tool layer
extVars == <<registryVars, auxVars>>

vars == <<toolVars, extVars>>

NoBind == [ok |-> TRUE, params |-> <<>>, positional_count |-> 0]

(***************************************************************************)
(* The manager of clients (mcp_manager.rs) and the registration of a       *)
(* client's tools as commands `tool <namespace>.<tool>`.                   *)
(***************************************************************************)
Namespaces == {"a", "a.b"}
ClientIds == {"c1", "c2"}

\* client.get_tools(): the tool list a client cached at connect time, tool
\* names unique within a server
ClientToolList(c) == IF c = "c1" THEN <<"b.c", "t">> ELSE <<"c">>

\* format!("{mcp_namespace}.{tool_name}")
Qualified(ns, t) == ns \o "." \o t

\* format!("tool {namespaced_tool_name}")
CommandName(ns, t) == "tool " \o Qualified(ns, t)

\* the declaration of an adapted command: the tool and the client its
\* run-callback captured
Decl(ns, t, c) == [namespace |-> ns, tool |-> t, client |-> c]

\* HashMap::insert / add_decl: a new entry, or the entry of that key replaced
MapInsert(m, k, v) == [x \in DOMAIN m \cup {k} |-> IF x = k THEN v ELSE m[x]]

\* HashMap::remove
MapRemove(m, k) == [x \in DOMAIN m \ {k} |-> m[x]]

\* `for tool in tools { register_mcp_tool_in_working_set(..) }`
RECURSIVE RegisterTools(_, _, _, _)
RegisterTools(table, ns, c, i) ==
    IF i > Len(ClientToolList(c)) THEN table
    ELSE LET t == ClientToolList(c)[i] IN
         RegisterTools(MapInsert(table, CommandName(ns, t), Decl(ns, t, c)), ns, c, i + 1)

\* registered_tools: the IndexMap keyed by tool name, as its key sequence
RECURSIVE RegisteredTools(_, _, _)
RegisteredTools(c, i, acc) ==
    IF i > Len(ClientToolList(c)) THEN acc
    ELSE LET t == ClientToolList(c)[i] IN
         RegisteredTools(c, i + 1, IF t \in Range(acc) THEN acc ELSE Append(acc, t))

\* the orders in which a HashMap can iterate over its keys
Perms(S) == {p \in [1..Cardinality(S) -> S] : Injective(p)}

NoOp == [op |-> "none", ns |-> "", ok |-> TRUE, collision |-> FALSE, val |-> <<>>]

\* the manager right after McpClientManager::new()
RegistryEmpty ==
    /\ clients = <<>>
    /\ commands = <<>>
    /\ opResult = NoOp
    /\ regOrder = <<>>
    /\ firstClient = <<>>

\* the server of the adapted tool: its namespace and its client
ServerNs == "a"
ServerClient == "c1"

\* name of the adapted tool and the names in the tool cache of the client
\* it was adapted from
ToolName == "t"
CachedToolNames == Range(ClientToolList(ServerClient))

\* the manager inside register_client for the server of the adapted tool:
\* the client is inserted, its tools are not adapted yet
RegistryWithServer ==
    /\ clients = (ServerNs :> ServerClient)
    /\ commands = <<>>
    /\ opResult = NoOp
    /\ regOrder = <<ServerNs>>
    /\ firstClient = (ServerNs :> ServerClient)

(***************************************************************************)
(* The stores of engine.rs.  `thread_local!` gives every thread its own    *)
(* MCP_CLIENT_STORE and RUNTIME_STORE, each created by new() the first     *)
(* time the thread touches it.                                             *)
(***************************************************************************)
\* the REPL thread and the worker threads of the multi-thread runtime
Threads == {"repl", "w1", "w2"}

NoStoreOp == [op |-> "none", thread |-> "", val |-> <<>>]

\* McpClientStore::new() and RuntimeStore::new() on every thread
StoreEmpty ==
    /\ clientStore = [th \in Threads |-> <<>>]
    /\ runtimeStore = [th \in Threads |-> <<>>]
    /\ storeOp = NoStoreOp
    /\ lastSet = <<>>

\* MCP_CLIENT_STORE.with / RUNTIME_STORE.with: the store of the calling thread
StoreOf(store, th) == th

(***************************************************************************)
(* Startup: main() of main.rs, up to the REPL.                             *)
(***************************************************************************)
\* `connection: Option<ConnectionType>`: no subcommand, `sse <url>`, or
\* `command <command> --name <name>`; the ReplClient is named after the url
\* or after the name
NoConnection == [type |-> "none", target |-> "", name |-> ""]

Connections ==
    {NoConnection, [type |-> "sse", target |-> "http://h/sse", name |-> "http://h/sse"]}
    \cup {[type |-> "command", target |-> "server", name |-> n] : n \in Namespaces}

\* the errors McpClient::connect returns: the transport or the handshake failed
ConnectErrors == {"transport", "handshake"}

\* the command line and the environment of a run
CliArgsSet == [connection : Connections, verbose : BOOLEAN, rust_log : BOOLEAN]

\* main() not entered: nothing of this component is in use
StartupIdle ==
    /\ mainPc = "none"
    /\ cliArgs = [connection |-> NoConnection, verbose |-> FALSE, rust_log |-> FALSE]
    /\ replClient = <<>>
    /\ connectErr = ""
    /\ stderr = <<>>

(***************************************************************************)
(* McpClient::connect of mcp.rs: the handshake, then the three listings.   *)
(***************************************************************************)
\* the caches of a client: tools, resources, templates
Listings == {"tools", "resources", "templates"}

\* the `capabilities` a server can announce at the handshake
Capabilities == [tools : BOOLEAN, resources : BOOLEAN]

\* what a listing can answer: Err(e), or Ok(items)
ListErr == [ok |-> FALSE, items |-> <<>>]

ListResults(k) ==
    {ListErr}
    \cup {[ok |-> TRUE, items |-> l] :
             l \in CASE k = "tools"     -> {<<>>, <<"t">>, <<"t", "u">>}
                    [] k = "resources" -> {<<>>, <<"r">>}
                    [] k = "templates" -> {<<>>, <<"tp">>}}

\* a client that asks for every listing
SupportedAlways(c, k) == TRUE

\* has_tools for the tools, has_resources for the resources and the templates
Supported(c, k) == IF k = "tools" THEN c.tools ELSE c.resources

\* `match client.list_all_..().await { Ok(x) => x, Err(e) => { warn!(..); Vec::new() } }`
ListOrEmpty(res) == IF res.ok THEN res.items ELSE <<>>

NothingLoaded == [k \in Listings |-> <<>>]

\* connect not called
ConnectIdle ==
    /\ connectPc = "none"
    /\ serverCaps = [tools |-> FALSE, resources |-> FALSE]
    /\ loaded = NothingLoaded
    /\ listed = [k \in Listings |-> "pending"]
    /\ served = NothingLoaded
    /\ connectResult = "none"

(***************************************************************************)
(* The value bridge: a JSON value converted to a shell value, back to      *)
(* JSON and to a shell value again.                                        *)
(***************************************************************************)
\* nothing converted yet
NotConverted ==
    /\ shellOut = NuErr
    /\ jsonBack = ConvErr
    /\ shellAgain = NuErr

\* the bridge not in use
BridgeIdle ==
    /\ bridgePc = "none"
    /\ build = DefaultBuild
    /\ jsonIn = JsonNull
    /\ NotConverted

\* every other component at rest
\* no command resolved
NoCmd == [ns |-> "", sub |-> ""]

\* no dynamic command registered, listed or dispatched
DynIdle ==
    /\ cmdRegistry = {}
    /\ listOut = [done |-> FALSE, rows |-> <<>>, tools |-> 0]
    /\ dynPc = "idle"
    /\ dynCmd = NoCmd
    /\ lockHeld = FALSE
    /\ dynResult = "none"

ExtIdle == StoreEmpty /\ StartupIdle /\ ConnectIdle /\ BridgeIdle /\ DynIdle

\* tool names a caller can hand to call_tool
ToolNames == {"t", "u"}

\* serde_json::json!(params): the binder's map as a JSON object
ArgsJson(params) == [kind |-> "object", val |-> params]

\* a lookup that finds every name
FindToolAlways(cached, name) == TRUE

\* self.tools.iter().find(|t| t.name == tool_name)
FindTool(cached, name) == \E i \in 1..Len(cached) : cached[i] = name

\* params.as_object().cloned(): Some(map) for a JSON object, None otherwise
AsObject(v) == IF v.kind = "object" THEN <<v.val>> ELSE <<>>

\* a client that issues the request again after an error response
WorkerAfterReplyRetry(r) == IF r.ok THEN "returned" ELSE "running"

\* `.await.context("Failed to call tool")?`: call_tool returns once the
\* response is there, whatever it is
WorkerAfterReply(r) == "returned"

Init ==
    /\ tool \in Tools
    /\ signature = EmptySignature
    /\ pc = "unregistered"
    /\ call = NoCall
    /\ bind = NoBind
    /\ args = <<>>
    /\ worker = "none"
    /\ wres = NoResult
    /\ chan = <<>>
    /\ toService = <<>>
    /\ wire = IdleWire
    /\ requests = 0
    /\ outcome = NoOutcome
    /\ steps = <<>>
    /\ fail = "none"
    /\ unsupplied = {}
    /\ blockOnCaller = {}
    /\ callName = ""
    /\ clientTools = ClientToolList(ServerClient)
    /\ RegistryWithServer
    /\ ExtIdle

invocationVars == <<call, bind, args, worker, wres, chan, toService, wire,
                    requests, outcome, steps, fail, unsupplied>>

\* the state before any tool is adapted, with the client's cache given
ToolIdle(cached) ==
    /\ tool = [props |-> <<>>, required |-> {}]
    /\ signature = EmptySignature
    /\ pc = "idle"
    /\ call = NoCall
    /\ bind = NoBind
    /\ args = <<>>
    /\ worker = "none"
    /\ wres = NoResult
    /\ chan = <<>>
    /\ toService = <<>>
    /\ wire = IdleWire
    /\ requests = 0
    /\ outcome = NoOutcome
    /\ steps = <<>>
    /\ fail = "none"
    /\ unsupplied = {}
    /\ blockOnCaller = {}
    /\ callName = ""
    /\ clientTools = cached

\* register_mcp_tool_in_working_set: the command is registered under the
\* signature map_tool_to_signature builds
RegisterTool ==
    /\ pc = "unregistered"
    /\ signature' = map_tool_to_signature(tool)
    /\ commands' = MapInsert(commands, CommandName(ServerNs, ToolName),
                             Decl(ServerNs, ToolName, clients[ServerNs]))
    /\ pc' = "idle"
    /\ UNCHANGED <<tool, blockOnCaller, callName, clientTools>>
    /\ UNCHANGED <<clients, opResult, regOrder, firstClient, auxVars>>
    /\ UNCHANGED invocationVars

\* the calls the shell host can hand to the run-callback: those it parses
\* against the registered signature while the REPL is at its prompt
CallsAtPrompt == IF pc = "idle" THEN AcceptedCalls(signature) ELSE {}

\* the run-callback up to the binder: a binder error returns at once
RunBind(c) ==
    /\ pc = "idle"
    /\ call' = c
    /\ bind' = map_call_args_to_tool_params(tool, c)
    /\ steps' = <<"bind">>
    /\ unsupplied' = Unsupplied(tool, signature, c)
    /\ IF bind'.ok
       THEN /\ pc' = "bound"
            /\ UNCHANGED <<outcome, fail>>
       ELSE /\ pc' = "done"
            /\ outcome' = ErrorOutcome("Failed to parse tool parameters")
            /\ fail' = "bind"
    /\ UNCHANGED <<tool, signature, args, worker, wres, chan, toService, wire,
                   requests, blockOnCaller,
                   callName, clientTools, extVars>>

\* args_json, the channel and std::thread::spawn; the caller then blocks in
\* receiver.recv()
RunSpawn ==
    /\ pc = "bound"
    /\ args' = <<ArgsJson(bind.params)>>
    /\ callName' = ToolName
    /\ worker' = "spawned"
    /\ chan' = <<>>
    /\ steps' = Append(steps, "spawn")
    /\ call' = NoCall
    /\ bind' = NoBind
    /\ pc' = "recv"
    /\ UNCHANGED <<tool, signature, wres, toService, wire, requests, outcome,
                   fail, unsupplied, blockOnCaller, clientTools, extVars>>

\* a send that loses the message
SendLost(ch, msg) == ch

\* sender.send(msg) on the std::sync::mpsc channel: the message is queued
Send(ch, msg) == Append(ch, msg)

\* the only Sender was moved into the worker: it is dropped when the thread
\* ends, by return or by unwinding
SenderDropped == worker \in {"exited", "panicked"}

\* worker: Runtime::new() succeeds
WorkerRuntimeOk ==
    /\ worker = "spawned"
    /\ worker' = "running"
    /\ UNCHANGED <<tool, signature, pc, call, bind, args, wres, chan, toService,
                   wire, requests, outcome, steps, fail, unsupplied, blockOnCaller,
                   callName, clientTools, extVars>>

\* worker: Runtime::new() fails; the error is sent and the thread returns
WorkerRuntimeFail ==
    /\ worker = "spawned"
    /\ chan' = Send(chan, ErrResult("Failed to create runtime"))
    /\ worker' = "exited"
    /\ args' = <<>>
    /\ fail' = "runtime"
    /\ UNCHANGED <<tool, signature, pc, call, bind, wres, toService, wire,
                   requests, outcome, steps, unsupplied, blockOnCaller,
                   callName, clientTools, extVars>>

\* worker: rt.block_on polls McpClient::call_tool, which looks the name up in
\* the cached tool list and hands the request to the connection; it owns
\* `params` until it returns
WorkerCallTool ==
    /\ worker = "running"
    /\ steps' = Append(steps, "call_tool")
    /\ IF FindTool(clientTools, callName)
       THEN /\ toService' = <<[name |-> callName, arguments |-> AsObject(args[1])]>>
            /\ requests' = requests + 1
            /\ worker' = "awaiting"
            /\ UNCHANGED <<wres, fail, args>>
       ELSE /\ wres' = ErrResult("Tool not found")
            /\ worker' = "returned"
            /\ fail' = "call_tool"
            /\ args' = <<>>
            /\ UNCHANGED <<toService, requests>>
    /\ UNCHANGED <<tool, signature, pc, call, bind, chan, wire,
                   outcome, unsupplied, blockOnCaller,
                   callName, clientTools, extVars>>

\* I/O task of the connection: write the request to the transport
IoTaskSend ==
    /\ IoTaskRunnable
    /\ toService # <<>>
    /\ wire' = [kind |-> "request", args |-> toService, result |-> NoResult]
    /\ toService' = <<>>
    /\ UNCHANGED <<tool, signature, pc, call, bind, args, worker, wres, chan, requests,
                   outcome, steps, fail, unsupplied, blockOnCaller,
                   callName, clientTools, extVars>>

\* the server answers the request
ServerReply(r) ==
    /\ wire.kind = "request"
    /\ r \in ServerResults
    /\ wire' = [kind |-> "response", args |-> <<>>, result |-> r]
    /\ UNCHANGED <<tool, signature, pc, call, bind, args, worker, wres, chan,
                   toService, requests, outcome, steps, fail, unsupplied, blockOnCaller,
                   callName, clientTools, extVars>>

\* I/O task of the connection: hand the response to the waiting future,
\* which completes
IoTaskDeliver ==
    /\ IoTaskRunnable
    /\ wire.kind = "response"
    /\ worker = "awaiting"
    /\ wres' = wire.result
    /\ worker' = WorkerAfterReply(wire.result)
    /\ args' = IF worker' = "returned" THEN <<>> ELSE args
    /\ wire' = IdleWire
    /\ fail' = IF wire.result.ok THEN fail ELSE "call_tool"
    /\ UNCHANGED <<tool, signature, pc, call, bind, chan, toService,
                   requests, outcome, steps, unsupplied, blockOnCaller,
                   callName, clientTools, extVars>>

\* worker: sender.send(result), then the thread ends
WorkerSend ==
    /\ worker = "returned"
    /\ chan' = Send(chan, wres)
    /\ wres' = NoResult
    /\ worker' = "exited"
    /\ UNCHANGED <<tool, signature, pc, call, bind, args, toService, wire,
                   requests, outcome, steps, fail, unsupplied, blockOnCaller,
                   callName, clientTools, extVars>>

\* worker: a panic inside block_on unwinds the thread; the sender is dropped
\* without a message
WorkerPanic ==
    /\ worker \in {"running", "awaiting"}
    /\ worker' = "panicked"
    /\ args' = <<>>
    /\ fail' = "channel"
    /\ UNCHANGED <<tool, signature, pc, call, bind, wres, chan, toService, wire,
                   requests, outcome, steps, unsupplied, blockOnCaller,
                   callName, clientTools, extVars>>

\* receiver.recv() returns: a message, or an error once the sender is gone;
\* then `match result`
RunRecv ==
    /\ pc = "recv"
    /\ chan # <<>> \/ SenderDropped
    /\ IF chan # <<>>
       THEN /\ chan' = Tail(chan)
            /\ outcome' = ProcessResult(chan[1])
            /\ steps' = IF outcome'.kind = "value" THEN Append(steps, "reduce")
                         ELSE steps
       ELSE /\ outcome' = ErrorOutcome("Failed to call MCP tool")
            /\ UNCHANGED <<chan, steps>>
    /\ pc' = "done"
    /\ UNCHANGED <<tool, signature, call, bind, args, worker, wres, toService,
                   wire, requests, fail, unsupplied, blockOnCaller,
                   callName, clientTools, extVars>>

\* the run-callback has returned; the REPL reads the next line
Return ==
    /\ pc = "done"
    /\ pc' = "idle"
    /\ call' = NoCall
    /\ bind' = NoBind
    /\ args' = <<>>
    /\ worker' = "none"
    /\ wres' = NoResult
    /\ chan' = <<>>
    /\ toService' = <<>>
    /\ wire' = IdleWire
    /\ requests' = 0
    /\ outcome' = NoOutcome
    /\ steps' = <<>>
    /\ fail' = "none"
    /\ unsupplied' = {}
    /\ callName' = ""
    /\ UNCHANGED <<tool, signature, blockOnCaller, clientTools, extVars>>

\* a command whose run builds a runtime and calls runtime.block_on on the
\* thread that runs the command; inside the startup runtime's block_on this
\* panics the REPL thread
BlockOnCallerThread(cmd) ==
    /\ pc = "idle"
    /\ blockOnCaller' = blockOnCaller \cup {cmd}
    /\ pc' = IF ReplInsideRuntime THEN "panicked" ELSE "idle"
    /\ UNCHANGED <<tool, signature, callName, clientTools, extVars>>
    /\ UNCHANGED invocationVars

\* CallToolCommand::run (mcp-call-tool)
CallToolCommandRun == BlockOnCallerThread("mcp-call-tool")

\* ListToolsCommand::run (mcp-list-tools)
ListToolsCommandRun == BlockOnCallerThread("mcp-list-tools")

\* ListResourcesCommand::run (mcp-list-resources)
ListResourcesCommandRun == BlockOnCallerThread("mcp-list-resources")

\* ToolCommand::run (tool <name> ...), the tool found in the registry
ToolCommandRun == BlockOnCallerThread("tool")

Next ==
    \/ RegisterTool
    \/ \E c \in CallsAtPrompt : RunBind(c)
    \/ RunSpawn
    \/ WorkerRuntimeOk
    \/ WorkerRuntimeFail
    \/ WorkerCallTool
    \/ IoTaskSend
    \/ \E r \in ServerResults : ServerReply(r)
    \/ IoTaskDeliver
    \/ WorkerSend
    \/ WorkerPanic
    \/ RunRecv
    \/ Return
    \/ CallToolCommandRun
    \/ ListToolsCommandRun
    \/ ListResourcesCommandRun
    \/ ToolCommandRun

Spec == Init /\ [][Next]_vars

\* the worker is an OS thread and the I/O task runs on the startup runtime's
\* worker threads: each is scheduled whenever it can take a step; the caller
\* returns from recv once a message or a disconnect is there
WorkerStep == WorkerRuntimeOk \/ WorkerRuntimeFail \/ WorkerCallTool \/ WorkerSend

IoTaskStep == IoTaskSend \/ IoTaskDeliver

\* the bridge does not read the schema: its progress is checked for the
\* tools with at most one property
LiveInit == Init /\ Len(tool.props) <= 1

LiveSpec ==
    /\ LiveInit
    /\ [][Next]_vars
    /\ WF_vars(WorkerStep)
    /\ WF_vars(IoTaskStep)
    /\ WF_vars(RunRecv)

(***************************************************************************)
(* McpClient::call_tool called directly, from a thread outside any         *)
(* runtime, with any tool name and any JSON value for the arguments.       *)
(***************************************************************************)
\* the tool lists a client can have cached
CacheLists == UNION {[1..n -> ToolNames] : n \in 0..2}

\* JSON values a caller passes as params
DirectArgs ==
    {JsonNull,
     [kind |-> "string", val |-> "a"],
     ArgsJson(<<>>),
     ArgsJson("src" :> [kind |-> "string", val |-> "a"])}

\* block_on(client.call_tool(name, a)) on the calling thread
DirectCall(name, a) ==
    /\ pc = "idle"
    /\ worker = "none"
    /\ callName' = name
    /\ args' = <<a>>
    /\ worker' = "running"
    /\ pc' = "direct"
    /\ UNCHANGED <<tool, signature, call, bind, wres, chan, toService, wire,
                   requests, outcome, steps, fail, unsupplied, blockOnCaller,
                   clientTools, extVars>>

\* call_tool has returned to the caller
DirectReturn ==
    /\ pc = "direct"
    /\ worker = "returned"
    /\ pc' = "idle"
    /\ worker' = "none"
    /\ wres' = NoResult
    /\ requests' = 0
    /\ steps' = <<>>
    /\ fail' = "none"
    /\ callName' = ""
    /\ UNCHANGED <<tool, signature, call, bind, args, chan, toService, wire,
                   outcome, unsupplied, blockOnCaller, clientTools, extVars>>

ClientInit ==
    /\ \E cached \in CacheLists : ToolIdle(cached)
    /\ RegistryEmpty
    /\ ExtIdle

ClientNext ==
    \/ \E name \in ToolNames, a \in DirectArgs : DirectCall(name, a)
    \/ WorkerCallTool
    \/ IoTaskSend
    \/ \E r \in ServerResults : ServerReply(r)
    \/ IoTaskDeliver
    \/ DirectReturn

ClientSpec == ClientInit /\ [][ClientNext]_vars

(***************************************************************************)
(* Operations of McpClientManager.  They run on the REPL thread, between   *)
(* two commands.                                                           *)
(***************************************************************************)
\* register_client(name, client, engine_state): the client's name is the
\* namespace it is registered under
RegisterClient(ns, c) ==
    /\ pc = "idle"
    /\ clients' = MapInsert(clients, ns, c)
    /\ commands' = RegisterTools(commands, ns, c, 1)
    /\ opResult' = [op |-> "register", ns |-> ns, ok |-> TRUE,
                    collision |-> ns \in DOMAIN clients,
                    val |-> RegisteredTools(c, 1, <<>>)]
    /\ regOrder' = IF ns \in Range(regOrder) THEN regOrder ELSE Append(regOrder, ns)
    /\ firstClient' = IF ns \in DOMAIN firstClient THEN firstClient
                      ELSE MapInsert(firstClient, ns, c)
    /\ UNCHANGED <<toolVars, auxVars>>

\* register_client when register_mcp_tools returns an error (merge_delta
\* fails): the insert into the map is already done, no command is merged,
\* and `?` returns the error
RegisterClientErr(ns, c) ==
    /\ pc = "idle"
    /\ clients' = MapInsert(clients, ns, c)
    /\ opResult' = [op |-> "register", ns |-> ns, ok |-> FALSE,
                    collision |-> ns \in DOMAIN clients, val |-> <<>>]
    /\ regOrder' = IF ns \in Range(regOrder) THEN regOrder ELSE Append(regOrder, ns)
    /\ firstClient' = IF ns \in DOMAIN firstClient THEN firstClient
                      ELSE MapInsert(firstClient, ns, c)
    /\ UNCHANGED <<toolVars, auxVars, commands>>

\* clear_clients
ClearClients ==
    /\ pc = "idle"
    /\ clients' = <<>>
    /\ opResult' = [op |-> "clear", ns |-> "", ok |-> TRUE, collision |-> FALSE,
                    val |-> <<>>]
    /\ regOrder' = <<>>
    /\ firstClient' = <<>>
    /\ UNCHANGED <<toolVars, auxVars, commands>>

\* remove_client(name)
RemoveClient(ns) ==
    /\ pc = "idle"
    /\ IF ns \notin DOMAIN clients
       THEN /\ opResult' = [op |-> "remove", ns |-> ns, ok |-> FALSE,
                            collision |-> FALSE, val |-> <<>>]
            /\ UNCHANGED <<clients, regOrder, firstClient>>
       ELSE /\ clients' = MapRemove(clients, ns)
            /\ opResult' = [op |-> "remove", ns |-> ns, ok |-> TRUE,
                            collision |-> FALSE, val |-> <<>>]
            /\ regOrder' = SelectSeq(regOrder, LAMBDA n : n # ns)
            /\ firstClient' = MapRemove(firstClient, ns)
    /\ UNCHANGED <<toolVars, auxVars, commands>>

\* get_client(Some(name))
GetClientByName(ns) ==
    /\ pc = "idle"
    /\ opResult' = IF ns \in DOMAIN clients
                   THEN [op |-> "get_client", ns |-> ns, ok |-> TRUE,
                         collision |-> FALSE, val |-> <<clients[ns]>>]
                   ELSE [op |-> "get_client", ns |-> ns, ok |-> FALSE,
                         collision |-> FALSE, val |-> <<>>]
    /\ UNCHANGED <<toolVars, auxVars, clients, commands, regOrder, firstClient>>

\* get_client(None): self.clients.iter().next(), the entry the HashMap
\* happens to iterate first
GetClientFirst ==
    /\ pc = "idle"
    /\ IF clients = <<>>
       THEN opResult' = [op |-> "get_client_none", ns |-> "", ok |-> FALSE,
                         collision |-> FALSE, val |-> <<>>]
       ELSE \E p \in Perms(DOMAIN clients) :
               opResult' = [op |-> "get_client_none", ns |-> "", ok |-> TRUE,
                            collision |-> FALSE, val |-> <<clients[p[1]]>>]
    /\ UNCHANGED <<toolVars, auxVars, clients, commands, regOrder, firstClient>>

\* get_clients(): a clone of the HashMap, enumerated by the caller in the
\* order the HashMap iterates
GetClients ==
    /\ pc = "idle"
    /\ \E p \in Perms(DOMAIN clients) :
          opResult' = [op |-> "get_clients", ns |-> "", ok |-> TRUE,
                       collision |-> FALSE, val |-> p]
    /\ UNCHANGED <<toolVars, auxVars, clients, commands, regOrder, firstClient>>

RegistryInit ==
    /\ ToolIdle(<<>>)
    /\ RegistryEmpty
    /\ ExtIdle

RegistryNext ==
    \/ \E ns \in Namespaces, c \in ClientIds : RegisterClient(ns, c)
    \/ \E ns \in Namespaces, c \in ClientIds : RegisterClientErr(ns, c)
    \/ ClearClients
    \/ \E ns \in Namespaces : RemoveClient(ns)
    \/ \E ns \in Namespaces : GetClientByName(ns)
    \/ GetClientFirst
    \/ GetClients

RegistrySpec == RegistryInit /\ [][RegistryNext]_vars

(***************************************************************************)
(* EngineStateExt: the store operations, called from any thread.  A lock   *)
(* is held for one assignment or one clone, so it is never poisoned.       *)
(***************************************************************************)
\* set_mcp_client(client) on thread th
SetMcpClient(th, c) ==
    /\ clientStore' = [clientStore EXCEPT ![StoreOf(clientStore, th)] = <<c>>]
    /\ storeOp' = [op |-> "set_mcp_client", thread |-> th, val |-> <<c>>]
    /\ lastSet' = <<c>>
    /\ UNCHANGED <<toolVars, registryVars, dynVars, connectVars, bridgeVars, startupVars, runtimeStore>>

\* get_mcp_client() on thread th
GetMcpClient(th) ==
    /\ storeOp' = [op |-> "get_mcp_client", thread |-> th,
                   val |-> clientStore[StoreOf(clientStore, th)]]
    /\ UNCHANGED <<toolVars, registryVars, dynVars, connectVars, bridgeVars, startupVars, clientStore, runtimeStore, lastSet>>

\* set_tokio_runtime(runtime) on thread th
SetTokioRuntime(th) ==
    /\ runtimeStore' = [runtimeStore EXCEPT ![StoreOf(runtimeStore, th)] = <<"runtime">>]
    /\ storeOp' = [op |-> "set_tokio_runtime", thread |-> th, val |-> <<"runtime">>]
    /\ UNCHANGED <<toolVars, registryVars, dynVars, connectVars, bridgeVars, startupVars, clientStore, lastSet>>

\* get_tokio_runtime() on thread th
GetTokioRuntime(th) ==
    /\ storeOp' = [op |-> "get_tokio_runtime", thread |-> th,
                   val |-> runtimeStore[StoreOf(runtimeStore, th)]]
    /\ UNCHANGED <<toolVars, registryVars, dynVars, connectVars, bridgeVars, startupVars, clientStore, runtimeStore, lastSet>>

StoreInit ==
    /\ ToolIdle(<<>>)
    /\ RegistryEmpty
    /\ ExtIdle

StoreNext ==
    \/ \E th \in Threads, c \in ClientIds : SetMcpClient(th, c)
    \/ \E th \in Threads : GetMcpClient(th)
    \/ \E th \in Threads : SetTokioRuntime(th)
    \/ \E th \in Threads : GetTokioRuntime(th)

StoreSpec == StoreInit /\ [][StoreNext]_vars

(***************************************************************************)
(* main(): one action per step of the function.  A panic on the main       *)
(* thread ends the process.                                                *)
(***************************************************************************)
\* Builder::new_multi_thread().enable_all().build(): Ok
MainBuildRuntime ==
    /\ mainPc = "start"
    /\ mainPc' = "runtime"
    /\ UNCHANGED <<toolVars, registryVars, dynVars, connectVars, bridgeVars, storeVars, cliArgs, replClient, connectErr, stderr>>

\* .context("Failed to create Tokio runtime")?: main returns the error
MainBuildRuntimeErr ==
    /\ mainPc = "start"
    /\ mainPc' = "exited_err"
    /\ stderr' = Append(stderr, "Error: Failed to create Tokio runtime")
    /\ UNCHANGED <<toolVars, registryVars, dynVars, connectVars, bridgeVars, storeVars, cliArgs, replClient, connectErr>>

\* `else { println!("No MCP server connection specified"); None }`
MainNoConnection ==
    /\ mainPc = "runtime"
    /\ cliArgs.connection.type = "none"
    /\ mainPc' = "connect_done"
    /\ UNCHANGED <<toolVars, registryVars, dynVars, connectVars, bridgeVars, storeVars, cliArgs, replClient, connectErr, stderr>>

\* runtime.block_on(McpClient::connect(..)) returned Ok(client)
MainConnectOk ==
    /\ mainPc = "runtime"
    /\ cliArgs.connection.type # "none"
    /\ replClient' = <<[name |-> cliArgs.connection.name, debug |-> cliArgs.verbose]>>
    /\ mainPc' = "connect_done"
    /\ UNCHANGED <<toolVars, registryVars, dynVars, connectVars, bridgeVars, storeVars, cliArgs, connectErr, stderr>>

\* runtime.block_on(McpClient::connect(..)) returned Err(err):
\* panic!("Warning: Failed to connect to MCP server ({}): {}", ..)
MainConnectErr(err) ==
    /\ mainPc = "runtime"
    /\ cliArgs.connection.type # "none"
    /\ connectErr' = err
    /\ stderr' = Append(stderr, "panicked: Warning: Failed to connect to MCP server")
    /\ mainPc' = "panicked"
    /\ UNCHANGED <<toolVars, registryVars, dynVars, connectVars, bridgeVars, storeVars, cliArgs, replClient>>

\* McpRepl::new(repl_client, runtime): Ok
MainReplNew ==
    /\ mainPc = "connect_done"
    /\ mainPc' = "repl_new"
    /\ UNCHANGED <<toolVars, registryVars, dynVars, connectVars, bridgeVars, storeVars, cliArgs, replClient, connectErr, stderr>>

\* client.server_info().context("Failed to get MCP server info")? inside
\* McpRepl::new, then .context("Failed to initialize MCP REPL shell")?
MainReplNewErr ==
    /\ mainPc = "connect_done"
    /\ replClient # <<>>
    /\ mainPc' = "exited_err"
    /\ stderr' = Append(stderr, "Error: Failed to initialize MCP REPL shell")
    /\ UNCHANGED <<toolVars, registryVars, dynVars, connectVars, bridgeVars, storeVars, cliArgs, replClient, connectErr>>

\* runtime.block_on(repl.run()): setup_mcp_client stores the client, on the
\* thread that called block_on, then evaluate_repl starts
MainReplRun ==
    /\ mainPc = "repl_new"
    /\ mainPc' = "repl"
    /\ IF replClient = <<>>
       THEN UNCHANGED <<clientStore, storeOp, lastSet>>
       ELSE /\ clientStore' = [clientStore EXCEPT
                                 ![StoreOf(clientStore, "repl")] = <<replClient[1].name>>]
            /\ storeOp' = [op |-> "set_mcp_client", thread |-> "repl",
                           val |-> <<replClient[1].name>>]
            /\ lastSet' = <<replClient[1].name>>
    /\ UNCHANGED <<toolVars, registryVars, dynVars, connectVars, bridgeVars, runtimeStore, cliArgs, replClient, connectErr, stderr>>

\* evaluate_repl returned: println!("MCP REPL session ended"); Ok(())
MainReplEnd ==
    /\ mainPc = "repl"
    /\ mainPc' = "exited_ok"
    /\ UNCHANGED <<toolVars, registryVars, dynVars, connectVars, bridgeVars, storeVars, cliArgs, replClient, connectErr, stderr>>

StartupInit ==
    /\ ToolIdle(<<>>)
    /\ RegistryEmpty
    /\ StoreEmpty
    /\ mainPc = "start"
    /\ cliArgs \in CliArgsSet
    /\ replClient = <<>>
    /\ connectErr = ""
    /\ stderr = <<>>
    /\ ConnectIdle
    /\ BridgeIdle
    /\ DynIdle

StartupNext ==
    \/ MainBuildRuntime
    \/ MainBuildRuntimeErr
    \/ MainNoConnection
    \/ MainConnectOk
    \/ \E err \in ConnectErrors : MainConnectErr(err)
    \/ MainReplNew
    \/ MainReplNewErr
    \/ MainReplRun
    \/ MainReplEnd

StartupSpec == StartupInit /\ [][StartupNext]_vars

(***************************************************************************)
(* McpClient::connect, one action per await point.                         *)
(***************************************************************************)
\* build_sse_client / build_command_client returned Ok: peer_info() holds
\* the capabilities the server announced
ConnectHandshake ==
    /\ connectPc = "start"
    /\ connectPc' = "tools"
    /\ UNCHANGED <<toolVars, registryVars, dynVars, bridgeVars, storeVars, startupVars, serverCaps, loaded,
                   listed, served, connectResult>>

\* build_sse_client / build_command_client returned Err: `.await?`
ConnectHandshakeErr ==
    /\ connectPc = "start"
    /\ connectPc' = "failed"
    /\ connectResult' = "err"
    /\ UNCHANGED <<toolVars, registryVars, dynVars, bridgeVars, storeVars, startupVars, serverCaps, loaded,
                   listed, served>>

\* `let x = if has_x { match client.list_all_x().await {..} } else { Vec::new() }`
ConnectLoad(k, next) ==
    /\ connectPc = k
    /\ connectPc' = next
    /\ IF Supported(serverCaps, k)
       THEN \E res \in ListResults(k) :
               /\ loaded' = [loaded EXCEPT ![k] = ListOrEmpty(res)]
               /\ listed' = [listed EXCEPT ![k] = IF res.ok THEN "ok" ELSE "err"]
               /\ served' = [served EXCEPT ![k] = res.items]
       ELSE /\ loaded' = [loaded EXCEPT ![k] = <<>>]
            /\ listed' = [listed EXCEPT ![k] = "skipped"]
            /\ UNCHANGED served
    /\ UNCHANGED <<toolVars, registryVars, dynVars, bridgeVars, storeVars, startupVars, serverCaps, connectResult>>

\* Ok(Self { client, tools, resources, templates, debug })
ConnectReturn ==
    /\ connectPc = "build"
    /\ connectPc' = "done"
    /\ connectResult' = "ok"
    /\ clientTools' = loaded["tools"]
    /\ UNCHANGED <<tool, signature, pc, call, bind, args, worker, wres, chan, toService,
                   wire, requests, outcome, steps, fail, unsupplied, blockOnCaller,
                   callName, registryVars, dynVars, bridgeVars, storeVars, startupVars, serverCaps, loaded,
                   listed, served>>

ConnectInit ==
    /\ ToolIdle(<<>>)
    /\ RegistryEmpty
    /\ StoreEmpty
    /\ StartupIdle
    /\ connectPc = "start"
    /\ serverCaps \in Capabilities
    /\ loaded = NothingLoaded
    /\ listed = [k \in Listings |-> "pending"]
    /\ served = NothingLoaded
    /\ connectResult = "none"
    /\ BridgeIdle
    /\ DynIdle

ConnectNext ==
    \/ ConnectHandshake
    \/ ConnectHandshakeErr
    \/ ConnectLoad("tools", "resources")
    \/ ConnectLoad("resources", "templates")
    \/ ConnectLoad("templates", "build")
    \/ ConnectReturn

ConnectSpec == ConnectInit /\ [][ConnectNext]_vars

(***************************************************************************)
(* The value bridge, one action per conversion.                            *)
(***************************************************************************)
\* convert_json_value_to_nu_value(&v, span)
BridgeToShell ==
    /\ bridgePc = "json"
    /\ shellOut' = convert_json_value_to_nu_value(jsonIn)
    /\ bridgePc' = IF shellOut'.ok THEN "shell" ELSE "failed"
    /\ UNCHANGED <<toolVars, registryVars, dynVars, storeVars, startupVars, connectVars, build,
                   jsonIn, jsonBack, shellAgain>>

\* convert_nu_value_to_json_value(&value, span) of the copy in use
BridgeToJson ==
    /\ bridgePc = "shell"
    /\ jsonBack' = ConvertNuValue(shellOut.value, build)
    /\ bridgePc' = IF jsonBack'.ok THEN "back" ELSE "failed"
    /\ UNCHANGED <<toolVars, registryVars, dynVars, storeVars, startupVars, connectVars, build,
                   jsonIn, shellOut, shellAgain>>

\* convert_json_value_to_nu_value of the JSON that came back
BridgeToShellAgain ==
    /\ bridgePc = "back"
    /\ shellAgain' = convert_json_value_to_nu_value(jsonBack.json)
    /\ bridgePc' = IF shellAgain'.ok THEN "done" ELSE "failed"
    /\ UNCHANGED <<toolVars, registryVars, dynVars, storeVars, startupVars, connectVars, build,
                   jsonIn, shellOut, jsonBack>>

BridgeInit ==
    /\ ToolIdle(<<>>)
    /\ RegistryEmpty
    /\ StoreEmpty
    /\ StartupIdle
    /\ ConnectIdle
    /\ bridgePc = "json"
    /\ build \in Builds
    /\ jsonIn \in JsonValues(build.preserve_order)
    /\ NotConverted
    /\ DynIdle

BridgeNext ==
    \/ BridgeToShell
    \/ BridgeToJson
    \/ BridgeToShellAgain

BridgeSpec == BridgeInit /\ [][BridgeNext]_vars

(***************************************************************************)
(* The adapted command while servers are dropped from the registry between *)
(* two commands.  The command table keeps the declaration.                 *)
(***************************************************************************)
DropInit == Init /\ Len(tool.props) <= 1

DropNext ==
    \/ Next
    \/ ClearClients
    \/ \E ns \in Namespaces : RemoveClient(ns)

DropSpec == DropInit /\ [][DropNext]_vars

(***************************************************************************)
(* The adapted command called with structured arguments: lists and records *)
(* of at most MaxNodes nodes for the untyped property "dst".               *)
(***************************************************************************)
FloatNaN == [kind |-> "Float", val |-> [class |-> "nan", halves |-> 0]]
FloatHalf == [kind |-> "Float", val |-> F64(1)]
CustomV == [kind |-> "Custom", val |-> "custom"]
RangeV == [kind |-> "Range", val |-> "1..3"]

ArgScalars == {StrB, FloatInf, FloatNaN, FloatHalf, ClosureV, CustomV, RangeV}

RECURSIVE ShellOfSize(_), ShellSeqs(_)
\* the shell values of exactly n nodes
ShellOfSize(n) ==
    IF n = 0 THEN {}
    ELSE (IF n = 1 THEN ArgScalars ELSE {})
         \cup {[kind |-> "List", val |-> s] : s \in ShellSeqs(n - 1)}
         \cup UNION {{[kind |-> "Record",
                       val |-> [i \in 1..Len(s) |-> [k |-> ks[i], v |-> s[i]]]] :
                         ks \in KeySeqs(Len(s), TRUE)} :
                      s \in {x \in ShellSeqs(n - 1) : Len(x) <= Len(KeyOrder)}}

\* the sequences of shell values of n nodes in all
ShellSeqs(n) ==
    IF n = 0 THEN {<<>>}
    ELSE UNION {{<<x>> \o rest : x \in ShellOfSize(k), rest \in ShellSeqs(n - k)} :
                  k \in 1..n}

ArgValues == UNION {ShellOfSize(n) : n \in 1..MaxNodes}

\* the values the parser produces for a property: any value for "dst"
ArgShape(name) == IF name = "dst" THEN ArgValues ELSE ShapeValues(SchemaType(name))

\* the calls the shell host accepts for a signature
ArgCalls(sig) ==
    LET all == UNION {ArgShape(n) : n \in PropNames}
        pos == {p \in [1..Len(sig.positional) -> all] :
                  \A i \in 1..Len(sig.positional) : p[i] \in ArgShape(sig.positional[i])}
        named == {f \in [FlagNames(sig) -> all \cup {Absent, NoValue}] :
                    \A n \in FlagNames(sig) :
                       IF IsSwitch(sig, n) THEN f[n] \in {Absent, NoValue}
                       ELSE f[n] \in {Absent} \cup ArgShape(n)}
    IN {[pos |-> p, named |-> f] : p \in pos, f \in named}

\* "dst" required beside an optional "src": a positional; "dst" optional
\* beside a required "src": a flag
ArgTools ==
    {[props |-> <<"dst", "src">>, required |-> {"dst"}],
     [props |-> <<"src", "dst">>, required |-> {"src"}]}

ArgInit == Init /\ tool \in ArgTools

ArgNext ==
    \/ RegisterTool
    \/ \E c \in (IF pc = "idle" THEN ArgCalls(signature) ELSE {}) : RunBind(c)
    \/ RunSpawn
    \/ WorkerRuntimeOk
    \/ WorkerRuntimeFail
    \/ WorkerCallTool
    \/ IoTaskSend
    \/ \E r \in ServerResults : ServerReply(r)
    \/ IoTaskDeliver
    \/ WorkerSend
    \/ WorkerPanic
    \/ RunRecv
    \/ Return

ArgSpec == ArgInit /\ [][ArgNext]_vars

(***************************************************************************)
(* The two copies of convert_nu_value_to_json_value applied to shell       *)
(* values of every variant they match on, alone and inside lists and       *)
(* records.                                                                *)
(***************************************************************************)
VariantValues ==
    {BoolTrue, IntOne, NothingV,
     [kind |-> "Filesize", val |-> 1],
     [kind |-> "Duration", val |-> "1sec"],
     [kind |-> "Date", val |-> "2024-01-01"],
     [kind |-> "Glob", val |-> "*.rs"],
     [kind |-> "Error", val |-> "error"]}
    \cup ArgValues

ConvInit ==
    /\ ToolIdle(<<>>)
    /\ RegistryEmpty
    /\ StoreEmpty
    /\ StartupIdle
    /\ ConnectIdle
    /\ bridgePc = "shell"
    /\ build \in Builds
    /\ jsonIn = JsonNull
    /\ \E v \in VariantValues : shellOut = [ok |-> TRUE, value |-> v]
    /\ jsonBack = ConvErr
    /\ shellAgain = NuErr
    /\ DynIdle

ConvNext ==
    \/ BridgeToJson
    \/ BridgeToShellAgain

ConvSpec == ConvInit /\ [][ConvNext]_vars

(***************************************************************************)
(* The dynamic command registry, its listing and its dispatcher            *)
(* (dynamic_commands.rs).  A command name is its namespace prefix and the  *)
(* rest: `tool hello` is [ns |-> "tool", sub |-> "hello"], `hello` is      *)
(* [ns |-> "", sub |-> "hello"].  The registry hands out its names in an   *)
(* order the callers do not control.                                       *)
(***************************************************************************)
CmdNames ==
    {[ns |-> "tool", sub |-> "hello"],
     [ns |-> "tool", sub |-> "echo"],
     [ns |-> "tool", sub |-> "lister"],
     [ns |-> "", sub |-> "hello"]}

\* the names whose run reads the registry again (they list the tools)
ReadsRegistry == {[ns |-> "tool", sub |-> "lister"]}

\* name.starts_with("tool ")
starts_with_tool(name) == name.ns = "tool"

\* format!("tool {}", cmd_name)
namespaced_name(cmd_name) == [ns |-> "tool", sub |-> cmd_name.sub]

\* the orders in which get_command_names can return the names
get_command_names(registry) ==
    {q \in [1..Cardinality(registry) -> registry] :
        \A i, j \in 1..Cardinality(registry) : q[i] = q[j] => i = j}

\* commands.iter().enumerate()
Enumerate(names) ==
    [i \in 1..Len(names) |-> [idx |-> i - 1, name |-> names[i]]]

\* the records list_tool_commands builds from the names: `#` is the index
\* of the name among all the names
ListRows(names) ==
    LET tools == SelectSeq(Enumerate(names), LAMBDA e : starts_with_tool(e.name))
    IN  [k \in 1..Len(tools) |->
            [num |-> tools[k].idx, name |-> tools[k].name.sub, category |-> "tool"]]

\* what list_tool_commands returns for one order of the names
Listing(names) ==
    [done |-> TRUE,
     rows |-> ListRows(names),
     tools |-> Cardinality({n \in cmdRegistry : starts_with_tool(n)})]

\* the name execute_dynamic_command runs for cmd_name: <<>> or <<name>>
Resolve(cmd_name) ==
    IF cmd_name \in cmdRegistry
    THEN <<cmd_name>>
    ELSE IF ~starts_with_tool(cmd_name) /\ namespaced_name(cmd_name) \in cmdRegistry
         THEN <<namespaced_name(cmd_name)>>
         ELSE <<>>

\* register_test_command / register_dynamic_tool: one more name
RegisterDynamicCommand(name) ==
    /\ dynPc = "idle"
    /\ name \notin cmdRegistry
    /\ cmdRegistry' = cmdRegistry \cup {name}
    /\ UNCHANGED <<toolVars, registryVars, storeVars, startupVars, connectVars, bridgeVars,
                   listOut, dynPc, dynCmd, lockHeld, dynResult>>

\* list_tool_commands called by the REPL: lock, enumerate, unlock
ListToolCommands ==
    /\ dynPc = "idle"
    /\ ~lockHeld
    /\ \E names \in get_command_names(cmdRegistry) : listOut' = Listing(names)
    /\ UNCHANGED <<toolVars, registryVars, storeVars, startupVars, connectVars, bridgeVars,
                   cmdRegistry, dynPc, dynCmd, lockHeld, dynResult>>

\* execute_dynamic_command up to decl.run: the guard of the registry is taken
\* and kept when a declaration is found, dropped with the error otherwise
ExecuteDynamicCommand(cmd_name) ==
    /\ dynPc = "idle"
    /\ ~lockHeld
    /\ IF Resolve(cmd_name) # <<>>
       THEN /\ dynPc' = "running"
            /\ dynCmd' = Resolve(cmd_name)[1]
            /\ lockHeld' = TRUE
            /\ dynResult' = "none"
       ELSE /\ dynResult' = "not_found"
            /\ UNCHANGED <<dynPc, dynCmd, lockHeld>>
    /\ UNCHANGED <<toolVars, registryVars, storeVars, startupVars, connectVars, bridgeVars,
                   cmdRegistry, listOut>>

\* decl.run of a command that leaves the registry alone, then the return
DeclRun ==
    /\ dynPc = "running"
    /\ dynCmd \notin ReadsRegistry
    /\ dynPc' = "idle"
    /\ dynCmd' = NoCmd
    /\ lockHeld' = FALSE
    /\ dynResult' = "ok"
    /\ UNCHANGED <<toolVars, registryVars, storeVars, startupVars, connectVars, bridgeVars,
                   cmdRegistry, listOut>>

\* decl.run of a command that lists the tools: registry.lock() on the thread
\* of the dispatcher.  std::sync::Mutex is not reentrant: a second lock by
\* the thread that holds the guard blocks forever or panics.
DeclRunReadsRegistry ==
    /\ dynPc = "running"
    /\ dynCmd \in ReadsRegistry
    /\ IF lockHeld
       THEN /\ dynPc' \in {"deadlocked", "panicked"}
            /\ UNCHANGED <<listOut, dynCmd, lockHeld, dynResult>>
       ELSE /\ \E names \in get_command_names(cmdRegistry) : listOut' = Listing(names)
            /\ dynPc' = "idle"
            /\ dynCmd' = NoCmd
            /\ dynResult' = "ok"
            /\ UNCHANGED lockHeld
    /\ UNCHANGED <<toolVars, registryVars, storeVars, startupVars, connectVars, bridgeVars,
                   cmdRegistry>>

DynInit ==
    /\ ToolIdle(<<>>)
    /\ RegistryEmpty
    /\ ExtIdle

DynNext ==
    \/ \E name \in CmdNames : RegisterDynamicCommand(name)
    \/ ListToolCommands
    \/ \E cmd_name \in CmdNames : ExecuteDynamicCommand(cmd_name)
    \/ DeclRun
    \/ DeclRunReadsRegistry

DynSpec == DynInit /\ [][DynNext]_vars

(***************************************************************************)
(* Properties.                                                             *)
(***************************************************************************)
OptionalProps(t) == Range(t.props) \ RequiredProps(t)

\* P of the classification table, from R, O and N = |R| + |O|
TableP(t) ==
    LET R == RequiredProps(t)
        O == OptionalProps(t)
        N == Cardinality(R) + Cardinality(O)
    IN CASE N = 1 -> 1
         [] N # 1 /\ Cardinality(R) = 2 -> 2
         [] N # 1 /\ Cardinality(R) = 1 /\ O # {} -> 1
         [] OTHER -> 0

\* C1: the positional count computed by map_tool_to_signature (kept with the
\* registered signature) and the one computed by map_call_args_to_tool_params
\* (kept with the binder's result) both equal P of the classification table,
\* and neither is ever greater than 2.
C1_PositionalCount ==
    /\ pc # "unregistered" =>
          /\ signature.positional_count = TableP(tool)
          /\ signature.positional_count <= 2
    /\ pc \in {"bound", "done"} /\ call # NoCall =>
          /\ bind.positional_count = TableP(tool)
          /\ bind.positional_count <= 2

C1_Witness ==
    /\ pc = "bound"
    /\ Len(tool.props) = 3
    /\ signature.positional_count = 2
    /\ bind.positional_count = 2

\* the parameters in the order of the classification rule: the sole
\* property, or the required ones in `properties` order
RuleOrder(t) ==
    IF Len(t.props) = 1 THEN t.props ELSE required_params(t, t.props)

Occurrences(sig, n) ==
    Cardinality({i \in 1..Len(sig.positional) : sig.positional[i] = n})
    + Cardinality({i \in 1..Len(sig.flags) : sig.flags[i].name = n})

\* C2: the registered signature declares every schema property exactly
\* once: the first P parameters of the rule's order as its positionals (so
\* the sole property of a one-property tool is its positional) and every
\* other property as a flag.
C2_SignatureDeclaresEveryProperty ==
    pc # "unregistered" =>
       /\ signature.positional = SubSeq(RuleOrder(tool), 1, TableP(tool))
       /\ \A n \in Range(tool.props) : Occurrences(signature, n) = 1
       /\ FlagNames(signature) = Range(tool.props) \ Range(signature.positional)

\* C3: when the call leaves a required schema property supplied neither as a
\* positional nor as a flag, the binder fails, the run-callback returns the
\* binding error, no worker is spawned and no request is written.
C3_MissingRequiredRejected ==
    pc \in {"bound", "recv", "done"} /\ unsupplied # {} =>
       /\ fail = "bind"
       /\ outcome = ErrorOutcome("Failed to parse tool parameters")
       /\ worker = "none"
       /\ requests = 0

\* the value the user gave for property n in call c
UserValue(sig, c, n) ==
    IF \E i \in 1..Len(sig.positional) : sig.positional[i] = n /\ i <= Len(c.pos)
    THEN c.pos[CHOOSE i \in 1..Len(sig.positional) : sig.positional[i] = n]
    ELSE IF c.named[n] = NoValue THEN BoolTrue ELSE c.named[n]

SuppliedOptional(t, sig, c) == {n \in OptionalProps(t) : Supplied(sig, c, n)}

\* C4: when the call supplies every required property and the binder
\* succeeds, the key set of its JSON object is exactly the required
\* properties plus the optional properties the user supplied, and every
\* value is the JSON conversion of the value the user gave.
C4_BinderKeySet ==
    pc = "bound" /\ unsupplied = {} =>
       /\ DOMAIN bind.params = RequiredProps(tool) \cup SuppliedOptional(tool, signature, call)
       /\ \A n \in DOMAIN bind.params :
             bind.params[n] = convert_nu_value_to_json_value(UserValue(signature, call, n)).json

\* C4 with the valued flags only: switches left out of the supplied set
C4_ValuedOnly ==
    pc = "bound" /\ unsupplied = {} =>
       /\ DOMAIN bind.params =
             RequiredProps(tool)
             \cup {n \in SuppliedOptional(tool, signature, call) : ~IsSwitch(signature, n)}
       /\ \A n \in DOMAIN bind.params :
             bind.params[n] = convert_nu_value_to_json_value(UserValue(signature, call, n)).json

\* C5: with exactly two required properties, the first positional argument
\* is bound to the required property that comes first in `properties` and
\* the second positional to the one that comes next.
C5_PositionalOrder ==
    LET req == required_params(tool, tool.props) IN
    pc = "bound" /\ Len(req) = 2 /\ Len(call.pos) = 2 =>
       /\ req[1] \in DOMAIN bind.params
       /\ req[2] \in DOMAIN bind.params
       /\ bind.params[req[1]] = convert_nu_value_to_json_value(call.pos[1]).json
       /\ bind.params[req[2]] = convert_nu_value_to_json_value(call.pos[2]).json

C5_Witness ==
    /\ pc = "bound"
    /\ tool.props = <<"dst", "verbose", "src">>
    /\ RequiredProps(tool) = {"src", "dst"}
    /\ call.pos = <<StrB, StrA>>
    /\ bind.params["dst"] = [kind |-> "string", val |-> "b"]
    /\ bind.params["src"] = [kind |-> "string", val |-> "a"]

\* C6: every optional boolean property is declared as a switch; a switch
\* present in the call is bound to JSON true and an absent switch leaves no
\* key.
C6_SwitchBinding ==
    /\ pc # "unregistered" =>
          \A n \in OptionalProps(tool) :
             is_boolean_parameter(n) => IsSwitch(signature, n)
    /\ pc = "bound" =>
          \A n \in FlagNames(signature) :
             IsSwitch(signature, n) =>
                /\ call.named[n] = NoValue =>
                      /\ n \in DOMAIN bind.params
                      /\ bind.params[n] = [kind |-> "bool", val |-> TRUE]
                /\ call.named[n] = Absent => n \notin DOMAIN bind.params

\* C7: a successful result with 0 content items returns Nothing, with one
\* item the value of that item, with two or more a List holding the value of
\* every item in the order returned.
C7_ContentReduction ==
    [][pc = "recv" /\ pc' = "done" /\ chan # <<>> /\ chan[1].ok =>
          LET cs == chan[1].contents IN
          /\ outcome'.kind = "value"
          /\ Len(cs) = 0 => outcome'.value = NothingV
          /\ Len(cs) = 1 => outcome'.value = ItemValue(cs[1])
          /\ Len(cs) >= 2 =>
                /\ outcome'.value.kind = "List"
                /\ Len(outcome'.value.val) = Len(cs)
                /\ \A i \in 1..Len(cs) : outcome'.value.val[i] = ItemValue(cs[i])]_vars

C7_Witness ==
    /\ pc = "done"
    /\ outcome.kind = "value"
    /\ outcome.value.kind = "List"
    /\ Len(outcome.value.val) = 2
    /\ outcome.value.val[1] # outcome.value.val[2]

AllSteps == <<"bind", "spawn", "call_tool", "reduce">>

IsPrefix(s, t) == Len(s) <= Len(t) /\ s = SubSeq(t, 1, Len(s))

\* C8 as stated: the steps run in order and stop at the first failure; the
\* outcome is the binding error after a binder failure (no worker spawned),
\* "Failed to call MCP tool" after a channel failure, "Tool execution
\* failed" after an error result of call_tool, and a pipeline value in every
\* other case.
C8_OutcomeAsStated ==
    /\ IsPrefix(steps, AllSteps)
    /\ fail = "bind" => worker = "none"
    /\ pc = "done" =>
          CASE fail = "bind" -> outcome = ErrorOutcome("Failed to parse tool parameters")
            [] fail = "channel" -> outcome = ErrorOutcome("Failed to call MCP tool")
            [] fail = "call_tool" -> outcome = ErrorOutcome("Tool execution failed")
            [] OTHER -> outcome.kind = "value"

\* C8 amended: as above, and a failure to create the worker's runtime also
\* ends in "Tool execution failed", with call_tool never started; a pipeline
\* value is returned exactly when nothing failed.
C8_OutcomeByFirstFailure ==
    /\ IsPrefix(steps, AllSteps)
    /\ fail = "bind" => worker = "none" /\ steps = <<"bind">>
    /\ fail = "runtime" => steps = <<"bind", "spawn">>
    /\ pc = "done" =>
          CASE fail = "bind" -> outcome = ErrorOutcome("Failed to parse tool parameters")
            [] fail = "channel" -> outcome = ErrorOutcome("Failed to call MCP tool")
            [] fail = "call_tool" -> outcome = ErrorOutcome("Tool execution failed")
            [] fail = "runtime" -> outcome = ErrorOutcome("Tool execution failed")
            [] OTHER -> outcome.kind = "value" /\ steps = AllSteps

C8_Witness ==
    /\ pc = "done"
    /\ fail = "call_tool"
    /\ steps = <<"bind", "spawn", "call_tool">>
    /\ outcome = ErrorOutcome("Tool execution failed")

\* C9: the bridge does not deadlock inside the startup executor: a caller
\* blocked on the result channel is eventually unblocked unless the request
\* is out and the server has not answered, and once the server has answered
\* the caller is eventually unblocked.
C9_BridgeNoDeadlock ==
    /\ (pc = "recv") ~> (pc = "done" \/ wire.kind = "request")
    /\ (pc = "recv" /\ wire.kind = "response") ~> (pc = "done")

C9_Witness ==
    /\ pc = "recv"
    /\ worker = "returned"
    /\ wres.ok
    /\ requests = 1

\* C10: no run-callback calls block_on on the thread that runs it.
C10_NoBlockOnCallerThread == blockOnCaller = {}

\* C11: call_tool issues a protocol request only for a name in the cached
\* tool list: for any other name it returns "Tool not found" and hands
\* nothing to the connection; for a cached name it issues exactly one request,
\* under that name, whose arguments are the params' object (none when params
\* is not a JSON object).
C11_CallToolContract ==
    /\ [][worker = "running" /\ worker' \in {"awaiting", "returned"} =>
            IF \E i \in 1..Len(clientTools) : clientTools[i] = callName
            THEN /\ requests' = requests + 1
                 /\ toService' =
                       <<[name |-> callName,
                          arguments |-> IF args[1].kind = "object"
                                        THEN <<args[1].val>> ELSE <<>>]>>
            ELSE /\ wres' = ErrResult("Tool not found")
                 /\ requests' = 0
                 /\ toService' = <<>>
                 /\ wire' = IdleWire]_vars
    /\ [](requests <= 1)
    /\ [](wres.err = "Tool not found" => requests = 0 /\ wire = IdleWire)

C11_Witness ==
    /\ pc = "direct"
    /\ worker = "returned"
    /\ callName = "u"
    /\ clientTools = <<"t">>
    /\ wres = ErrResult("Tool not found")
    /\ requests = 0

\* C12 as stated: one invocation causes at most one request, and exactly
\* one when binding succeeded and the tool is in the client's cache; after a
\* failed request the callback returns the error with no second request.
C12_NoRetriesAsStated ==
    /\ requests <= 1
    /\ pc = "done" /\ fail # "bind" /\ FindTool(clientTools, ToolName) => requests = 1
    /\ pc = "done" /\ fail = "call_tool" =>
          requests = 1 /\ outcome = ErrorOutcome("Tool execution failed")

\* C12 amended: at most one request per invocation; exactly one once the
\* worker has created its runtime and started call_tool for a cached tool;
\* none when binding fails or the worker's runtime cannot be created; after
\* a failed request the callback returns the error with no second request.
C12_NoRetries ==
    /\ requests <= 1
    /\ "call_tool" \in Range(steps) /\ FindTool(clientTools, ToolName) => requests = 1
    /\ "call_tool" \notin Range(steps) => requests = 0
    /\ fail \in {"bind", "runtime"} => requests = 0
    /\ pc = "done" /\ fail = "call_tool" =>
          requests = 1 /\ outcome = ErrorOutcome("Tool execution failed")

C12_Witness ==
    /\ pc = "done"
    /\ fail = "call_tool"
    /\ requests = 1
    /\ worker = "exited"
    /\ outcome = ErrorOutcome("Tool execution failed")

\* C13: registering under a namespace that is already in the registry
\* fails, and every namespace in the registry maps to the client of its
\* first registration.
C13_NamespaceCollisionRejected ==
    /\ opResult.op = "register" /\ opResult.collision => ~opResult.ok
    /\ DOMAIN clients = DOMAIN firstClient
    /\ \A ns \in DOMAIN clients : clients[ns] = firstClient[ns]

\* C14: enumerating the registry yields the namespaces in the order they
\* were registered, get_client(None) yields the client registered first,
\* and the tools of one server are registered in the order of its tool list.
C14_InsertionOrder ==
    /\ opResult.op = "get_clients" => opResult.val = regOrder
    /\ opResult.op = "get_client_none" /\ opResult.ok =>
          opResult.val = <<clients[regOrder[1]]>>
    /\ opResult.op = "register" =>
          opResult.val = ClientToolList(clients[opResult.ns])

\* C15: once the server of the adapted command is dropped from the registry,
\* an invocation of the command issues no request and ends in an error.
C15_LivenessCheckedOnInvoke ==
    ServerNs \notin DOMAIN clients =>
       /\ requests = 0
       /\ toService = <<>>
       /\ wire = IdleWire
       /\ pc = "done" => outcome.kind = "error"

\* the (namespace, tool) pairs of the registry
RegisteredPairs ==
    UNION {{<<ns, ClientToolList(clients[ns])[i]>> :
               i \in 1..Len(ClientToolList(clients[ns]))} : ns \in DOMAIN clients}

\* C16: two registered tools with different (namespace, tool) pairs have
\* different qualified names, and the command of every registered tool is
\* in the command table, declared for that tool: no registration has
\* replaced it.
C16_QualifiedNamesUnique ==
    /\ \A p, q \in RegisteredPairs :
          p # q => Qualified(p[1], p[2]) # Qualified(q[1], q[2])
    /\ \A p \in RegisteredPairs :
          /\ CommandName(p[1], p[2]) \in DOMAIN commands
          /\ commands[CommandName(p[1], p[2])] = Decl(p[1], p[2], clients[p[1]])

\* C17: the client store is process-wide: once a set_mcp_client has completed
\* on any thread, a get_mcp_client on every thread returns the client of the
\* last completed set, never None and never an older client.
C17_StoreProcessWide ==
    (storeOp.op = "get_mcp_client" /\ lastSet # <<>>) => storeOp.val = lastSet

\* C18: a connect failure at startup is tolerated: it is reported as a
\* warning, the process neither panics nor exits, and startup goes on to the
\* REPL without the failed server.
C18_ConnectFailureTolerated ==
    connectErr # "" =>
       /\ mainPc \notin {"panicked", "exited_err", "exited_ok"}
       /\ replClient = <<>>
       /\ \A i \in 1..Len(stderr) :
             stderr[i] # "panicked: Warning: Failed to connect to MCP server"

\* the capability a listing depends on, as the server announced it
Announced(k) == IF k = "tools" THEN serverCaps.tools ELSE serverCaps.resources

\* C19: once the handshake has succeeded, connect never fails: it returns a
\* client in which the cache of a listing that failed is empty, the cache of
\* a listing that succeeded holds what the server answered, whatever the
\* other listings did, and a cache is non-empty only if the server announced
\* the capability and the listing succeeded.
C19_ListFailuresTolerated ==
    /\ connectPc \notin {"none", "start", "failed"} => connectResult # "err"
    /\ \A k \in Listings :
          /\ loaded[k] # <<>> => (Announced(k) /\ listed[k] = "ok")
          /\ listed[k] = "err" => loaded[k] = <<>>
          /\ listed[k] = "ok" => loaded[k] = served[k]
    /\ connectPc = "done" =>
          /\ connectResult = "ok"
          /\ clientTools = loaded["tools"]
          /\ \A k \in Listings : listed[k] # "pending"

\* connect has returned a client after list-tools failed and list-resources
\* succeeded with a resource
C19_Witness ==
    /\ connectPc = "done"
    /\ connectResult = "ok"
    /\ listed["tools"] = "err"
    /\ listed["resources"] = "ok"
    /\ loaded["resources"] = <<"r">>
    /\ listed["templates"] = "err"

\* the column names of a record, in order
Cols(rec) == [i \in 1..Len(rec.val) |-> rec.val[i].k]

\* C20: for every JSON value (null, booleans, integers inside and outside
\* the i64 range, floats, strings, arrays and objects up to MaxNodes nodes)
\* no conversion of the round trip fails, and the shell value of the JSON
\* that came back equals the shell value of the input, lists in the same
\* order and records with the same columns in the same order.
C20_RoundTrip ==
    /\ bridgePc # "failed"
    /\ bridgePc \in {"back", "done"} => jsonBack.ok
    /\ bridgePc = "done" =>
          /\ shellAgain.ok
          /\ shellAgain.value = shellOut.value
          /\ shellOut.value.kind = "Record" =>
                Cols(shellAgain.value) = Cols(shellOut.value)

\* the round trip is done for an object whose first entry is the largest
\* u64, which became a float, and whose second entry is a float without a
\* fraction
C20_Witness ==
    /\ bridgePc = "done"
    /\ jsonIn.kind = "object"
    /\ Len(jsonIn.val) = 2
    /\ jsonIn.val[1].v = JsonNumber([repr |-> "PosInt", n |-> U64Max])
    /\ jsonIn.val[2].v = JsonNumber([repr |-> "Float", n |-> 2])
    /\ shellOut.value.val[1].v = [kind |-> "Float", val |-> F64(2 * (U64Max + 1))]
    /\ shellAgain.value = shellOut.value

\* shell value v is what JSON value j maps to, variant by variant
RECURSIVE JsonShape(_, _)
JsonShape(j, v) ==
    CASE j.kind = "null"   -> v.kind = "Nothing"
      [] j.kind = "bool"   -> v.kind = "Bool" /\ v.val = j.val
      [] j.kind = "string" -> v.kind = "String" /\ v.val = j.val
      [] j.kind = "number" ->
            IF j.val.repr # "Float" /\ j.val.n \in I64Min..I64Max
            THEN v.kind = "Int" /\ v.val = j.val.n
            ELSE v.kind = "Float" /\ v.val.class = "finite"
      [] j.kind = "array"  ->
            /\ v.kind = "List"
            /\ Len(v.val) = Len(j.val)
            /\ \A i \in 1..Len(j.val) : JsonShape(j.val[i], v.val[i])
      [] j.kind = "object" ->
            /\ v.kind = "Record"
            /\ Len(v.val) = Len(j.val)
            /\ \A i \in 1..Len(j.val) :
                  v.val[i].k = j.val[i].k /\ JsonShape(j.val[i].v, v.val[i].v)

\* C21: the conversion of a JSON value to a shell value never fails: null
\* gives Nothing, a boolean Bool, a number inside i64 Int, any other number
\* Float, a string String, an array a List of the same length and order, an
\* object a Record with the same keys in iteration order.
C21_JsonToShellTotal ==
    bridgePc \notin {"none", "json"} =>
       /\ shellOut.ok
       /\ JsonShape(jsonIn, shellOut.value)

\* an array of the largest u64 and a string has been converted
C21_Witness ==
    /\ bridgePc = "shell"
    /\ jsonIn = [kind |-> "array",
                 val |-> <<JsonNumber([repr |-> "PosInt", n |-> U64Max]),
                           [kind |-> "string", val |-> "a"]>>]
    /\ shellOut.value.val[1].kind = "Float"

\* the values given in a call, positionals and flags
CallValues(c) ==
    {c.pos[i] : i \in 1..Len(c.pos)}
    \cup {c.named[n] : n \in {x \in DOMAIN c.named : c.named[x].kind \notin {"Absent", "NoValue"}}}

\* v is, or holds at some depth, a value of the set leaves
RECURSIVE Holds(_, _)
Holds(v, leaves) ==
    \/ v \in leaves
    \/ v.kind = "List" /\ \E i \in 1..Len(v.val) : Holds(v.val[i], leaves)
    \/ v.kind = "Record" /\ \E i \in 1..Len(v.val) : Holds(v.val[i].v, leaves)

NonFiniteFloats == {FloatInf, FloatNaN}

\* the invocation failed in the binder and nothing went to the server
FailedBeforeCall ==
    /\ ~bind.ok
    /\ pc = "done"
    /\ outcome.kind = "error"
    /\ worker = "none"
    /\ requests = 0
    /\ toService = <<>>
    /\ wire = IdleWire

\* C22: a call with a non-finite float among its arguments, at top level or
\* at any depth inside a list or a record, fails in the conversion: the
\* invocation returns an error and no request goes to the server.
C22_NonFiniteFloatRejected ==
    (\E v \in CallValues(call) : Holds(v, NonFiniteFloats)) => FailedBeforeCall

\* the invocation has failed for a list that holds a record that holds NaN
C22_Witness ==
    /\ pc = "done"
    /\ call.pos = <<[kind |-> "List",
                     val |-> <<[kind |-> "Record",
                                val |-> <<[k |-> "a", v |-> FloatNaN]>>]>>]>>
    /\ FailedBeforeCall

\* the variants with no JSON form
OpaqueValues == {ClosureV, CustomV, RangeV}

\* C23: a call with a Closure, a Custom or a Range value among its arguments
\* fails in the conversion with an error: no JSON value is made for it and
\* no request goes to the server.
C23_OpaqueVariantsRejected ==
    (\E v \in CallValues(call) : v \in OpaqueValues) => FailedBeforeCall

\* the other copy of the converter, same build of serde_json
OtherCopy(b) ==
    [b EXCEPT !.file = IF b.file = "utils" THEN "call_tool" ELSE "utils"]

\* C24: a Duration, a Date and a Range become a JSON string in the copy the
\* binder uses as in the copy of utils, and the two copies give the same
\* outcome and the same JSON kind for every shell value.
C24_ConvertersAgree ==
    bridgePc \in {"back", "done", "failed"} =>
       /\ shellOut.value.kind \in {"Duration", "Date", "Range"} =>
             jsonBack.ok /\ jsonBack.json.kind = "string"
       /\ LET other == ConvertNuValue(shellOut.value, OtherCopy(build))
          IN /\ other.ok = jsonBack.ok
             /\ other.json.kind = jsonBack.json.kind

\* C25: the tool listing holds exactly one record per registered tool
\* command and the `#` of its k-th record (k from 0) is k, whatever other
\* commands the registry holds
C25_ListNumbering ==
    listOut.done =>
        /\ Len(listOut.rows) = listOut.tools
        /\ \A k \in 1..Len(listOut.rows) : listOut.rows[k].num = k - 1

\* C30: the guard of the command registry is not held while the looked-up
\* command runs, and a dispatched command that reads the registry neither
\* blocks nor panics on the lock of its own thread
C30_NoSelfDeadlock ==
    /\ dynPc = "running" => ~lockHeld
    /\ dynPc \notin {"deadlocked", "panicked"}

\* the property of positional slot i (0-based) of the binder: <<>> or <<name>>
SlotProperty(t, i) ==
    LET prop_vec == SortRequiredFirst(t)
        req == required_params(t, prop_vec)
    IN  IF Len(prop_vec) = 1 THEN <<prop_vec[1]>>
        ELSE IF i < Len(req) THEN <<req[i + 1]>>
        ELSE <<>>

\* the flag n as the call writes it: Absent when the call has no such flag
WrittenFlag(c, n) == IF n \in DOMAIN c.named THEN c.named[n] ELSE Absent

\* the JSON value a written flag stands for: true for a flag without a value
FlagJson(v) ==
    IF v = NoValue THEN [kind |-> "bool", val |-> TRUE]
    ELSE convert_nu_value_to_json_value(v).json

\* positional-then-flag precedence in slot i for the flags in `counted`
SlotPrecedence(i, counted) ==
    LET n == SlotProperty(tool, i)[1]
        posv == CallOpt(call, i)
        flagv == IF WrittenFlag(call, n) \in counted THEN WrittenFlag(call, n) ELSE Absent
    IN  /\ posv # Absent =>
              /\ n \in DOMAIN bind.params
              /\ bind.params[n] = convert_nu_value_to_json_value(posv).json
        /\ posv = Absent /\ flagv # Absent =>
              /\ n \in DOMAIN bind.params
              /\ bind.params[n] = FlagJson(flagv)
        /\ posv = Absent /\ flagv = Absent => n \notin DOMAIN bind.params

\* C26: in every positional slot of the binder a present positional is
\* bound and wins over the flag of the same name, an absent positional
\* falls back to the supplied flag, and with neither the key is absent
C26_PositionalThenFlag ==
    pc = "bound" =>
        \A i \in 0..(bind.positional_count - 1) :
            SlotProperty(tool, i) # <<>> => SlotPrecedence(i, AllValues \cup {NoValue})

\* C26 for the flags written with a value
C26_ValuedFlags ==
    pc = "bound" =>
        \A i \in 0..(bind.positional_count - 1) :
            SlotProperty(tool, i) # <<>> => SlotPrecedence(i, AllValues)

\* what the run-callback returns when recv fails
ChannelError == ErrorOutcome("Failed to call MCP tool")

\* C27: in one bridged call the worker sends exactly one message on every
\* path that ends by return and then exits, the caller receives exactly one
\* message; when the worker ends without sending the caller gets the channel
\* error; and once the call_tool future has completed the run-callback
\* returns
C27_OneMessagePerCall ==
    /\ [](Len(chan) <= 1)
    /\ [](worker \in {"spawned", "running", "awaiting", "returned", "panicked"} => chan = <<>>)
    /\ [](worker = "exited" /\ pc = "recv" => Len(chan) = 1)
    /\ [](pc = "done" /\ worker # "none" =>
             /\ chan = <<>>
             /\ SenderDropped
             /\ outcome = ChannelError <=> worker = "panicked")
    /\ (pc = "recv" /\ worker = "returned") ~> (pc = "done")
    /\ (pc = "recv" /\ worker = "panicked") ~> (pc = "done")

C27_Witness ==
    /\ pc = "done"
    /\ worker = "exited"
    /\ chan = <<>>
    /\ requests = 1
    /\ outcome.kind = "value"

\* the properties the binder reads from the positional slots 0..P-1, in
\* slot order
RECURSIVE BinderSlots(_, _)
BinderSlots(t, i) ==
    IF i >= BinderPositionalCount(t) THEN <<>>
    ELSE SlotProperty(t, i) \o BinderSlots(t, i + 1)

\* the properties the binder reads with call.get_flag for call c: the slot
\* properties whose positional is absent, and in the flag pass every
\* property the positional pass left without a key
BinderFlagReads(t, c) ==
    LET count == BinderPositionalCount(t)
        first == BindPositionalLoop(t, c, 0, count, [ok |-> TRUE, params |-> <<>>])
    IN  {SlotProperty(t, i)[1] :
            i \in {k \in 0..(count - 1) :
                      SlotProperty(t, k) # <<>> /\ CallOpt(c, k) = Absent}}
        \cup {n \in Range(t.props) : first.ok /\ n \notin DOMAIN first.params}

SignatureMatchesBinder ==
    /\ signature.positional = BinderSlots(tool, 0)
    /\ BinderFlagReads(tool, call) \subseteq FlagNames(signature)

\* C28: the positionals the signature declares are, in order, the
\* properties the binder reads from its positional slots, and every
\* property the binder reads as a flag is declared as a flag or a switch
C28_SignatureMatchesBinder == pc = "bound" => SignatureMatchesBinder

\* C28 for the schemas of two or more properties
C28_TwoOrMoreProperties ==
    pc = "bound" /\ Len(tool.props) >= 2 => SignatureMatchesBinder

\* C29: a register_client that returns an error leaves the client map as it
\* was before the call
C29_RegisterClientAtomic ==
    [][opResult'.op = "register" /\ ~opResult'.ok => clients' = clients]_vars

=============================================================================
